---- MODULE Spec2Model ----
(***************************************************************************)
(* Model of the thai_school_alarm_web core: the minute-tick alarm          *)
(* scheduler (data/scheduler_jobs.py check_schedule), the WiFi fallback    *)
(* controller (monitor_wifi_connection) and the audio player               *)
(* (data/lib/audio_player.py AudioPlayer).                                 *)
(*                                                                         *)
(* The Utility table (models.py) is the function utility: a key maps to    *)
(* <<>> when no row exists and to <<v>> when a row with value v exists.    *)
(***************************************************************************)
EXTENDS Integers, Sequences, FiniteSets, TLC

(***************************************************************************)
(* Bounds of the model                                                     *)
(***************************************************************************)
MinutesPerHour == 2
HoursPerDay == 2
DaysPerWeek == 2
MaxClock == 9
MaxSeconds == 720
MaxCalls == 3
MaxTicksPerMinute == 3
MaxRestarts == 2
MaxOverlaps == 2
MaxFaults == 1
MaxFairCalls == 3
\* files whose playback raises, over all sequences of a run
MaxPlayErrors == 1
\* calls made by the single thread whose sequences are followed to their end
MaxSequences == 2
\* runs of the reconciliation job
MaxSyncs == 2

(***************************************************************************)
(* Program constants                                                       *)
(***************************************************************************)
FAIL_THRESHOLD == 3
DWELL_SECONDS == 300
LastHour == 23
LastMinute == 59
DEFAULT_AP_SSID == "SchoolAlarm-Setup"
DEFAULT_AP_CHANNEL == 6

VARIABLES
    utility,        \* Utility rows: key -> <<>> or <<value>>
    \* ---- scheduler process (check_schedule) ----
    clock,          \* wall clock of the scheduler, in minutes
    schedules,      \* Schedule rows (read-only to the core)
    spc,            \* position of the running check_schedule call
    current_time,   \* check_schedule's local current_time
    sQueue,         \* Schedule rows the for-loop still has to visit
    executed_count, \* check_schedule's local executed_count
    sResult,        \* value returned by the last finished check_schedule
    tickMinute,     \* history: current_time of the latest tick
    calls,          \* history: play_sequence calls per schedule id made by ticks whose current_time is tickMinute
    tickCalls,      \* history: play_sequence calls made by the latest tick
    tickPlayed,     \* history: the arguments of the play_sequence calls of the latest tick
    tickMarks,      \* history: marker writes made by the latest tick
    minuteTicks,    \* history: ticks finished with current_time = tickMinute
    restarts,       \* history: process stops inside a tick so far
    \* ---- WiFi fallback controller (monitor_wifi_connection) ----
    wallclock,      \* datetime.now().timestamp(), in seconds
    hostapdActive,  \* systemctl is-active hostapd
    lastTick,       \* history: what the latest monitor tick did
    failStreak,     \* history: consecutive failed CLIENT_OK ticks
    goodSince,      \* history: first successful AP_FALLBACK tick after the latest failed one
    nmSeen,         \* history: is_network_manager_available() at the latest tick
    dwellFrom,      \* history: the first of the unbroken run of successful AP_FALLBACK ticks up to the latest tick, -1 if none
    hostapdConf,    \* the hostapd configuration file written by the latest successful start_ap_mode
    \* ---- audio player (AudioPlayer) ----
    lockHolder,     \* AudioPlayer._lock owner, 0 when free
    stopEvent,      \* AudioPlayer._stop_event
    playThread,     \* AudioPlayer._play_thread: 0 for None, else worker id
    initialized,    \* AudioPlayer._initialized
    workers,        \* sequence of worker threads ever started
    music,          \* pygame.mixer.music: <<>> idle, <<w, i>> busy with file i of worker w
    callers,        \* the threads calling play_sequence / stop
    ncalls,         \* history: number of play_sequence / stop calls made so far
    joinTimeouts,   \* history: joins that returned with the worker still alive
    \* ---- _build_sound_sequence called on its own ----
    buildArgs,      \* the arguments schedule, hour, minute and whether the call was made
    sound_paths,    \* the list the call returned
    \* ---- a second scheduler process whose check_schedule overlaps ----
    racer,          \* its position, locals and the ids it has dispatched
    \* ---- failures of the collaborators ----
    job,            \* the job the tick driver runs in the runs with failures
    escaped,        \* an exception has left a job function
    faultLog,       \* history: failures so far, the tick of the latest, Error results
    \* ---- the scheduler process seen by the WiFi controller ----
    procStarts,     \* history: restarts of the process between monitor ticks, and
                    \* whether one fell inside a run of failed ticks or a dwell
    \* ---- the APScheduler job store and the reconciliation job ----
    jobs,           \* ids of the jobs in the scheduler
    syncReturns     \* history: the dicts sync_schedules_to_apscheduler returned

schedVars == <<clock, schedules, spc, current_time, sQueue, executed_count,
               sResult, tickMinute, calls, tickCalls, tickPlayed, tickMarks,
               minuteTicks, restarts>>
wifiVars == <<wallclock, hostapdActive, lastTick, failStreak, goodSince,
              nmSeen, dwellFrom, hostapdConf>>
playerVars == <<lockHolder, stopEvent, playThread, initialized, workers,
                music, callers, ncalls, joinTimeouts>>
buildVars == <<buildArgs, sound_paths>>
raceVars == <<racer>>
faultVars == <<job, escaped, faultLog>>
procVars == <<procStarts>>
syncVars == <<jobs, syncReturns>>
vars == <<utility, schedVars, wifiVars, playerVars, buildVars, raceVars,
          faultVars, procVars, syncVars>>

\* what the actions of one component leave alone
auxVars == <<raceVars, faultVars, procVars, syncVars>>
notSched == <<wifiVars, playerVars, buildVars, auxVars>>
notWifi == <<schedVars, playerVars, buildVars, auxVars>>
notPlayer == <<schedVars, wifiVars, buildVars, auxVars>>

(***************************************************************************)
(* Utility table (State Store)                                             *)
(***************************************************************************)
Keys == {"last_execution_check_schedule", "wifi_monitor_enabled",
         "wifi_down_count", "in_fallback_mode", "wifi_back_time",
         "last_fallback_time", "fallback_count", "ap_ssid", "ap_password",
         "ap_channel", "last_known_ssid", "audio_playback_state"}

NoRow == <<>>

\* AudioPlayer.STATE_KEY
StateKey == "audio_playback_state"

\* Utility.objects.update_or_create(name=k, defaults={'value': v})
UpdateOrCreate(u, k, v) == [u EXCEPT ![k] = <<v>>]

\* Utility.objects.filter(name=k).delete()
Delete(u, k) == [u EXCEPT ![k] = NoRow]

(***************************************************************************)
(* str(n) and int(s) / float(s): a decimal string is a sequence of digits  *)
(***************************************************************************)
RECURSIVE Str(_)
Str(n) == IF n < 10 THEN <<n>> ELSE Str(n \div 10) \o <<n % 10>>

\* row values that int(), float() and json.loads() reject: a text of one
\* character that is no digit
NotANumber == <<10>>
NotJson == [text |-> NotANumber]

IsNumeric(s) == Len(s) > 0 /\ \A i \in 1..Len(s) : s[i] \in 0..9

RECURSIVE ParseDigits(_)
ParseDigits(s) ==
    IF Len(s) = 0 THEN 0
    ELSE 10 * ParseDigits(SubSeq(s, 1, Len(s) - 1)) + s[Len(s)]


(***************************************************************************)
(* Audio files                                                             *)
(* A path is <<kind, n>>.  os.path.exists(path) is false for MissingFiles. *)
(***************************************************************************)
MissingFiles == {<<"sound", 9>>}
Exists(path) == path \notin MissingFiles

\* AllExist that only looks at the first path
FirstExists(paths) == Len(paths) = 0 \/ Exists(paths[1])

\* the validation loop of play_sequence: every path must exist
AllExist(paths) == \A i \in 1..Len(paths) : Exists(paths[i])

(***************************************************************************)
(* Scheduler: time                                                         *)
(***************************************************************************)
MinutesPerDay == HoursPerDay * MinutesPerHour

\* datetime.now(tz) as the fields the code reads
Now(c) == [day    |-> c \div MinutesPerDay,
           hour   |-> (c % MinutesPerDay) \div MinutesPerHour,
           minute |-> c % MinutesPerHour]

\* current_time.strftime('%A')
Weekday(t) == t.day % DaysPerWeek

\* current_time.isoformat() and datetime.fromisoformat()
Isoformat(t) == <<t.day, t.hour, t.minute>>
FromIsoformat(s) == [day |-> s[1], hour |-> s[2], minute |-> s[3]]

NoTime == [day |-> 0 - 1, hour |-> 0, minute |-> 0]

(***************************************************************************)
(* Scheduler: Schedule rows                                                *)
(***************************************************************************)
NoBell == <<>>
Bell1 == <<[first |-> <<"bell_first", 1>>, last |-> <<"bell_last", 1>>]>>

CandidateSchedules ==
    { [id |-> 1, hour |-> 0, minute |-> 1, days |-> {0},
       enable_bell_sound |-> TRUE, bell_sound |-> Bell1, tell_time |-> TRUE,
       sound |-> << <<"sound", 1>> >>],
      [id |-> 2, hour |-> 0, minute |-> 1, days |-> {0, 1},
       enable_bell_sound |-> FALSE, bell_sound |-> NoBell, tell_time |-> FALSE,
       sound |-> << <<"sound", 2>> >>],
      [id |-> 3, hour |-> 0, minute |-> 1, days |-> {0},
       enable_bell_sound |-> TRUE, bell_sound |-> NoBell, tell_time |-> FALSE,
       sound |-> <<>>],
      [id |-> 4, hour |-> 0, minute |-> 1, days |-> {0},
       enable_bell_sound |-> FALSE, bell_sound |-> Bell1, tell_time |-> FALSE,
       sound |-> << <<"sound", 9>> >>],
      [id |-> 5, hour |-> 1, minute |-> 0, days |-> {0},
       enable_bell_sound |-> FALSE, bell_sound |-> NoBell, tell_time |-> FALSE,
       sound |-> << <<"sound", 1>> >>] }

ScheduleIds == {s.id : s \in CandidateSchedules}

\* Format02d without the zero padding
FormatNoPad(n) == Str(n)

\* f"{n:02d}": the decimal digits of n, padded with zeros to two digits
Format02d(n) == IF n < 10 THEN <<0, n>> ELSE Str(n)

\* tell_hour / tell_minute of data.time_sound: the lookup from the two-digit
\* string to the clips that speak the number; no clip for another string
tell_hour(hour_str) ==
    IF Len(hour_str) = 2 /\ IsNumeric(hour_str)
    THEN << <<"hour", ParseDigits(hour_str)>> >> ELSE <<>>
tell_minute(minute_str) ==
    IF Len(minute_str) = 2 /\ IsNumeric(minute_str)
    THEN << <<"minute", ParseDigits(minute_str)>> >> ELSE <<>>

\* an empty path string
EmptyPath == <<>>

\* HasBell that does not look at enable_bell_sound
HasBellIgnoringFlag(schedule) == schedule.bell_sound # NoBell

\* lines 122 and 144: schedule.enable_bell_sound and schedule.bell_sound
HasBell(schedule) ==
    schedule.enable_bell_sound /\ schedule.bell_sound # NoBell

\* _build_sound_sequence(schedule, hour, minute)
BuildSoundSequence(schedule, hour, minute) ==
    LET opening == IF HasBell(schedule)
                      /\ schedule.bell_sound[1].first # EmptyPath
                   THEN <<schedule.bell_sound[1].first>> ELSE <<>>
        spoken  == IF schedule.tell_time
                   THEN tell_hour(Format02d(hour))
                        \o tell_minute(Format02d(minute))
                   ELSE <<>>
        custom  == IF schedule.sound # <<>> THEN <<schedule.sound[1]>> ELSE <<>>
        closing == IF HasBell(schedule)
                      /\ schedule.bell_sound[1].last # EmptyPath
                   THEN <<schedule.bell_sound[1].last>> ELSE <<>>
    IN  opening \o spoken \o custom \o closing

\* FilterByTime that compares the hour only
FilterByHourOnly(rows, hour, minute) == {s \in rows : s.hour = hour}

\* Schedule.objects.filter(time__hour=hour, time__minute=minute)
FilterByTime(rows, hour, minute) ==
    {s \in rows : s.hour = hour /\ s.minute = minute}

\* the queryset iterated in primary-key order
RECURSIVE InIdOrder(_)
InIdOrder(rows) ==
    IF rows = {} THEN <<>>
    ELSE LET s == CHOOSE x \in rows : \A y \in rows : x.id <= y.id
         IN  <<s>> \o InIdOrder(rows \ {s})

(***************************************************************************)
(* Scheduler: idempotency marker                                           *)
(***************************************************************************)
ExecKey == "last_execution_check_schedule"

\* SameMinute with the minute compared against the wrong field
SameMinuteWrongField(last_time, t) ==
    /\ last_time.day = t.day
    /\ last_time.hour = t.hour
    /\ last_time.minute = t.hour

\* SameMinute without the date: hour and minute only
SameTimeOfDay(last_time, t) ==
    /\ last_time.hour = t.hour
    /\ last_time.minute = t.minute

\* the comparison in _already_executed_this_minute
SameMinute(last_time, t) ==
    /\ last_time.day = t.day
    /\ last_time.hour = t.hour
    /\ last_time.minute = t.minute

\* a marker whose timestamp text fromisoformat() rejects
BadTimestampMarker == [timestamp |-> NotANumber, hour |-> 0, minute |-> 0]

\* lines 172-173: json.loads(value), data['timestamp'] and fromisoformat
\* all succeed
ParsesAsMarker(v) ==
    /\ "timestamp" \in DOMAIN v
    /\ Len(v.timestamp) = 3

\* _already_executed_this_minute('check_schedule', t); a value that does
\* not parse raises inside the try and the handler of line 180 returns False
AlreadyExecutedThisMinute(u, t) ==
    IF u[ExecKey] = NoRow THEN FALSE
    ELSE IF ~ParsesAsMarker(u[ExecKey][1]) THEN FALSE
    ELSE SameMinute(FromIsoformat(u[ExecKey][1].timestamp), t)

\* _mark_executed('check_schedule', t)
MarkExecuted(u, t) ==
    UpdateOrCreate(u, ExecKey,
        [timestamp |-> Isoformat(t), hour |-> t.hour, minute |-> t.minute])


(***************************************************************************)
(* Scheduler: check_schedule, one action per step of the call so that a    *)
(* process stop can fall between the steps                                 *)
(***************************************************************************)
Result(kind, n) == [kind |-> kind, count |-> n]

NoCalls == [i \in ScheduleIds |-> 0]

\* history kept per minute: reset when a tick sees a new current_time
NewMinute(t) == t # tickMinute

\* lines 37-62: read the clock, idempotency check, query the Schedule rows;
\* markerRead is false when _already_executed_this_minute could not read or
\* parse the marker row (it then returns False, lines 180-182)
BeginTick(markerRead) ==
    /\ spc = "idle"
    /\ LET t == Now(clock)
           rows == FilterByTime(schedules, t.hour, t.minute)
           done == IF NewMinute(t) THEN 0 ELSE minuteTicks
       IN  /\ done < MaxTicksPerMinute
           /\ tickMinute' = t
           /\ calls' = IF NewMinute(t) THEN NoCalls ELSE calls
           /\ tickCalls' = 0
           /\ tickPlayed' = <<>>
           /\ tickMarks' = 0
           /\ IF markerRead /\ AlreadyExecutedThisMinute(utility, t)
              THEN /\ sResult' = Result("Already executed this minute", 0)
                   /\ minuteTicks' = done + 1
                   /\ UNCHANGED <<spc, current_time, sQueue, executed_count>>
              ELSE IF rows = {}
              THEN /\ sResult' = Result("No schedules", 0)
                   /\ minuteTicks' = done + 1
                   /\ UNCHANGED <<spc, current_time, sQueue, executed_count>>
              ELSE /\ spc' = "loop"
                   /\ current_time' = t
                   /\ sQueue' = InIdOrder(rows)
                   /\ executed_count' = 0
                   /\ minuteTicks' = done
                   /\ UNCHANGED sResult
    /\ UNCHANGED <<utility, clock, schedules, restarts>>

CheckScheduleBegin ==
    /\ BeginTick(TRUE)
    /\ UNCHANGED notSched

\* lines 69-87 for one schedule: does the body reach play_sequence, and
\* does play_sequence return normally
IsNotificationDay(schedule, t) == Weekday(t) \in schedule.days

\* Dispatches without the notification-day check
DispatchesAnyDay(schedule, t) ==
    BuildSoundSequence(schedule, t.hour, t.minute) # <<>>

\* Dispatches without the 'if not sound_paths' check of lines 79-81
DispatchesEmptyList(schedule, t) == IsNotificationDay(schedule, t)

Dispatches(schedule, t) ==
    /\ IsNotificationDay(schedule, t)
    /\ BuildSoundSequence(schedule, t.hour, t.minute) # <<>>

PlaySequenceReturns(schedule, t) ==
    AllExist(BuildSoundSequence(schedule, t.hour, t.minute))

\* lines 64-91: one iteration of the for-loop
CheckScheduleEntry ==
    /\ spc = "loop"
    /\ sQueue # <<>>
    /\ LET schedule == Head(sQueue)
           called == Dispatches(schedule, current_time)
           played == called /\ PlaySequenceReturns(schedule, current_time)
       IN  /\ calls' = IF called
                       THEN [calls EXCEPT ![schedule.id] = @ + 1] ELSE calls
           /\ tickCalls' = IF called THEN tickCalls + 1 ELSE tickCalls
           /\ tickPlayed' =
                IF called
                THEN Append(tickPlayed,
                            [sound_paths |-> BuildSoundSequence(schedule,
                                 current_time.hour, current_time.minute),
                             schedule_id |-> schedule.id])
                ELSE tickPlayed
           /\ executed_count' = IF played THEN executed_count + 1
                                ELSE executed_count
    /\ sQueue' = Tail(sQueue)
    /\ UNCHANGED <<utility, clock, schedules, spc, current_time, sResult,
                   tickMinute, tickMarks, minuteTicks, restarts, notSched>>

\* lines 93-98: write the marker and return
CheckScheduleMark ==
    /\ spc = "loop"
    /\ sQueue = <<>>
    /\ utility' = MarkExecuted(utility, current_time)
    /\ sResult' = Result("Executed", executed_count)
    /\ tickMarks' = tickMarks + 1
    /\ minuteTicks' = minuteTicks + 1
    /\ spc' = "idle"
    /\ UNCHANGED <<clock, schedules, current_time, sQueue, executed_count,
                   tickMinute, calls, tickCalls, tickPlayed, restarts,
                   notSched>>

\* the wall clock moves on by a minute
Advance ==
    /\ clock < MaxClock
    /\ clock' = clock + 1
    /\ UNCHANGED <<utility, schedules, spc, current_time, sQueue,
                   executed_count, sResult, tickMinute, calls, tickCalls,
                   tickPlayed, tickMarks, minuteTicks, restarts, notSched>>

\* the scheduler process stops inside a tick and is started again: the
\* locals of the call are lost, the Utility rows stay
Restart ==
    /\ spc = "loop"
    /\ restarts < MaxRestarts
    /\ restarts' = restarts + 1
    /\ spc' = "idle"
    /\ sQueue' = <<>>
    /\ executed_count' = 0
    /\ UNCHANGED <<utility, clock, schedules, current_time, sResult,
                   tickMinute, calls, tickCalls, tickPlayed, tickMarks,
                   minuteTicks, notSched>>

NextSched == CheckScheduleBegin \/ CheckScheduleEntry \/ CheckScheduleMark
             \/ Advance

NextRestart == NextSched \/ Restart

(***************************************************************************)
(* Scheduler: a second process (a restarted scheduler started while the    *)
(* previous one still runs) whose check_schedule overlaps the first one's  *)
(***************************************************************************)
NoRacer == [pc |-> "idle", current_time |-> NoTime, queue |-> <<>>,
            played |-> {}, result |-> "none", runs |-> 0]

\* lines 37-62 in the second process, in a minute in which the first
\* process has begun a tick
RacerBegin ==
    /\ racer.pc = "idle"
    /\ racer.runs < MaxOverlaps
    /\ Now(clock) = tickMinute
    /\ LET t == Now(clock)
           rows == FilterByTime(schedules, t.hour, t.minute)
       IN  racer' =
             IF AlreadyExecutedThisMinute(utility, t)
             THEN [racer EXCEPT !.runs = @ + 1, !.current_time = t,
                                !.played = {},
                                !.result = "Already executed this minute"]
             ELSE IF rows = {}
             THEN [racer EXCEPT !.runs = @ + 1, !.current_time = t,
                                !.played = {}, !.result = "No schedules"]
             ELSE [racer EXCEPT !.runs = @ + 1, !.current_time = t,
                                !.played = {}, !.result = "running",
                                !.pc = "loop", !.queue = InIdOrder(rows)]
    /\ UNCHANGED <<utility, schedVars, wifiVars, playerVars, buildVars,
                   faultVars, procVars, syncVars>>

\* lines 64-91 in the second process
RacerEntry ==
    /\ racer.pc = "loop"
    /\ racer.queue # <<>>
    /\ LET schedule == Head(racer.queue)
           called == Dispatches(schedule, racer.current_time)
       IN  /\ racer' = [racer EXCEPT
                          !.queue = Tail(@),
                          !.played = IF called THEN @ \cup {schedule.id}
                                     ELSE @]
           /\ calls' = IF called /\ racer.current_time = tickMinute
                       THEN [calls EXCEPT ![schedule.id] = @ + 1] ELSE calls
    /\ UNCHANGED <<utility, clock, schedules, spc, current_time, sQueue,
                   executed_count, sResult, tickMinute, tickCalls, tickPlayed,
                   tickMarks, minuteTicks, restarts, wifiVars, playerVars,
                   buildVars, faultVars, procVars, syncVars>>

\* lines 93-98 in the second process
RacerMark ==
    /\ racer.pc = "loop"
    /\ racer.queue = <<>>
    /\ utility' = MarkExecuted(utility, racer.current_time)
    /\ racer' = [racer EXCEPT !.pc = "idle", !.result = "Executed"]
    /\ UNCHANGED <<schedVars, wifiVars, playerVars, buildVars, faultVars,
                   procVars, syncVars>>

NextOverlap == NextSched \/ RacerBegin \/ RacerEntry \/ RacerMark


(***************************************************************************)
(* WiFi fallback controller                                                *)
(***************************************************************************)
\* seconds between two monitor ticks (cron every minute, a late tick)
TickGaps == {60, 90}

\* _get_wifi_down_count(): int(value), 0 when the row is absent or int() raises
GetWifiDownCount(u) ==
    IF u["wifi_down_count"] = NoRow THEN 0
    ELSE IF IsNumeric(u["wifi_down_count"][1])
         THEN ParseDigits(u["wifi_down_count"][1])
         ELSE 0

\* _set_wifi_down_count(count)
SetWifiDownCount(u, count) == UpdateOrCreate(u, "wifi_down_count", Str(count))

\* MonitoringEnabled that never looks at the toggle row
MonitoringAlwaysEnabled(u) == TRUE

\* monitor_wifi_connection lines 237-241: the toggle row must hold 'true'
MonitoringEnabled(u) ==
    /\ u["wifi_monitor_enabled"] # NoRow
    /\ u["wifi_monitor_enabled"][1] = "true"

\* is_ap_mode_active(): get_ap_status()['active'], hostapd is-active
IsApModeActive == hostapdActive

\* start_ap_mode(ssid, password): what the OS commands can do
\*   ok                    every step succeeded
\*   failed                no interface, a config write or the hostapd restart
\*                         failed, or dnsmasq failed and hostapd was stopped
\*   dnsmasq_failed_hostapd_left
\*                         hostapd restarted, dnsmasq failed and the
\*                         'systemctl stop hostapd' that follows failed too
StartOutcomes == {"ok", "failed", "dnsmasq_failed_hostapd_left"}

\* ap_manager.py lines 170-172: 'if not password' holds for None and for ''
Passphrase(password) ==
    IF password = <<>> \/ password[1] = "" THEN "generated" ELSE password[1]

\* create_hostapd_config as called by start_ap_mode(ssid=ap_ssid,
\* password=ap_password): the caller passes ap_ssid = None for an absent
\* row, which overrides the default of the parameter, and the template
\* renders None as the text "None"; no channel is passed, so the default
\* of the parameter is used
HostapdConf(ssid, password) ==
    [ssid |-> IF ssid = <<>> THEN "None" ELSE ssid[1],
     wpa_passphrase |-> Passphrase(password),
     channel |-> DEFAULT_AP_CHANNEL]

NoConf == [ssid |-> "", wpa_passphrase |-> "", channel |-> 0]

StartApMode(ssid, password, outcome) ==
    LET pw == Passphrase(password)
    IN  [success |-> outcome = "ok",
         hostapd |-> IF outcome = "failed" THEN hostapdActive ELSE TRUE,
         ap_info |-> IF outcome = "ok"
                     THEN [ssid |-> ssid, password |-> <<pw>>]
                     ELSE [ssid |-> <<>>, password |-> <<>>]]

\* stop_ap_mode(): the exit codes of the commands are not looked at, only an
\* exception (a timeout) makes it return False
\*   ok                 hostapd stopped, (True, ...)
\*   nonzero_exit       'systemctl stop hostapd' exits non-zero, (True, ...)
\*   timeout            'systemctl stop hostapd' times out, (False, ...)
\*   timeout_after_stop hostapd stopped, a later command times out, (False, ...)
StopOutcomes == {"ok", "nonzero_exit", "timeout", "timeout_after_stop"}

StopApMode(outcome) ==
    [success |-> outcome \in {"ok", "nonzero_exit"},
     hostapd |-> IF outcome \in {"ok", "timeout_after_stop"}
                 THEN FALSE ELSE hostapdActive]

TickRecord(mode, probe, result) ==
    [mode |-> mode, probe |-> probe, result |-> result,
     startCalled |-> FALSE, startOk |-> FALSE,
     stopCalled |-> FALSE, stopOk |-> FALSE, goodSince |-> 0 - 2]

\* BackTimeAfterFailedProbe that leaves the dwell timestamp in place
BackTimeKept(u) == u

\* the wifi_back_time row after a failed probe in AP mode (line 350)
BackTimeAfterFailedProbe(u) == Delete(u, "wifi_back_time")

\* _handle_ap_mode_monitoring()
HandleApModeMonitoring(now, probe, stopOutcome) ==
    IF probe
    THEN IF utility["wifi_back_time"] = NoRow
         THEN /\ utility' = UpdateOrCreate(utility, "wifi_back_time", Str(now))
              /\ lastTick' = TickRecord("ap", probe, "WiFi back - waiting 5 minutes")
              /\ goodSince' = IF goodSince = 0 - 1 THEN now ELSE goodSince
              /\ UNCHANGED hostapdActive
         ELSE IF ~IsNumeric(utility["wifi_back_time"][1])
         THEN \* float() raises, caught at line 345
              /\ lastTick' = TickRecord("ap", probe, "Error")
              /\ goodSince' = IF goodSince = 0 - 1 THEN now ELSE goodSince
              /\ UNCHANGED <<utility, hostapdActive>>
         ELSE LET back_timestamp == ParseDigits(utility["wifi_back_time"][1])
                  elapsed == now - back_timestamp
                  stop == StopApMode(stopOutcome)
                  since == IF goodSince = 0 - 1 THEN now ELSE goodSince
              IN  IF elapsed >= DWELL_SECONDS
                  THEN /\ hostapdActive' = stop.hostapd
                       /\ IF stop.success
                          THEN /\ utility' =
                                    UpdateOrCreate(
                                      Delete(Delete(SetWifiDownCount(utility, 0),
                                                    "in_fallback_mode"),
                                             "wifi_back_time"),
                                      "last_fallback_time", Str(now))
                               /\ lastTick' =
                                    [TickRecord("ap", probe, "Returned to client mode")
                                       EXCEPT !.stopCalled = TRUE, !.stopOk = TRUE,
                                              !.goodSince = since]
                               /\ goodSince' = 0 - 2
                          ELSE /\ lastTick' =
                                    [TickRecord("ap", probe, "Failed to return")
                                       EXCEPT !.stopCalled = TRUE,
                                              !.goodSince = since]
                               /\ goodSince' = since
                               /\ UNCHANGED utility
                  ELSE /\ lastTick' = TickRecord("ap", probe, "Waiting before switching back")
                       /\ goodSince' = since
                       /\ UNCHANGED <<utility, hostapdActive>>
    ELSE /\ utility' = BackTimeAfterFailedProbe(utility)
         /\ lastTick' = TickRecord("ap", probe, "Still no WiFi - waiting in AP mode")
         /\ goodSince' = 0 - 1
         /\ UNCHANGED hostapdActive


\* ReachedThreshold with the comparison off by one
ReachedThresholdStrict(count) == count > FAIL_THRESHOLD

\* line 391: the counter has reached the threshold
ReachedThreshold(count) == count >= FAIL_THRESHOLD

\* CountAfterActivation that resets the counter whatever start_ap_mode returned
CountAlwaysReset(success, count) == 0

\* the counter written at the end of the activation branch: reset at
\* line 438 when start_ap_mode succeeded, left as it is otherwise
CountAfterActivation(success, count) == IF success THEN 0 ELSE count

\* IncrementFallbackCount that leaves the counter as it is
FallbackCountKept(u) == u

\* lines 427-436: increment fallback_count, create it as '1' when absent;
\* int() raising is swallowed
IncrementFallbackCount(u) ==
    IF u["fallback_count"] = NoRow
    THEN UpdateOrCreate(u, "fallback_count", Str(1))
    ELSE IF IsNumeric(u["fallback_count"][1])
         THEN UpdateOrCreate(u, "fallback_count",
                             Str(ParseDigits(u["fallback_count"][1]) + 1))
         ELSE u

\* lines 409-440: the rows written after a successful start_ap_mode
SaveFallbackState(u, now, ap_info) ==
    LET u1 == UpdateOrCreate(u, "in_fallback_mode", "true")
        u2 == UpdateOrCreate(u1, "last_fallback_time", Str(now))
        u3 == IF ap_info.password # <<>>
              THEN UpdateOrCreate(u2, "ap_password", ap_info.password[1])
              ELSE u2
    IN  IncrementFallbackCount(u3)

\* _handle_client_mode_monitoring(wifi_down_count)
HandleClientModeMonitoring(now, wifi_down_count, probe, ssid, startOutcome) ==
    LET base == IF wifi_down_count = 0 THEN 0 ELSE failStreak
    IN
    IF probe
    THEN /\ utility' =
              LET u1 == SetWifiDownCount(utility, 0)
              IN  IF ssid # <<>>
                  THEN UpdateOrCreate(u1, "last_known_ssid", ssid[1]) ELSE u1
         /\ lastTick' = TickRecord("client", probe, "WiFi connection OK")
         /\ failStreak' = 0
         /\ UNCHANGED hostapdActive
    ELSE LET count == wifi_down_count + 1
             u1 == SetWifiDownCount(utility, count)
             start == StartApMode(utility["ap_ssid"], utility["ap_password"],
                                  startOutcome)
         IN  /\ failStreak' = IF base = 0 - 1 THEN 0 - 1 ELSE base + 1
             /\ IF ReachedThreshold(count)
                THEN /\ hostapdActive' = start.hostapd
                     /\ utility' =
                          LET u2 == IF start.success
                                    THEN SaveFallbackState(u1, now, start.ap_info)
                                    ELSE u1
                              after == CountAfterActivation(start.success, count)
                          IN  IF after = count THEN u2
                              ELSE SetWifiDownCount(u2, after)
                     /\ lastTick' =
                          [TickRecord("client", probe,
                                      IF start.success THEN "Switched to AP mode"
                                      ELSE "Failed to switch to AP mode")
                             EXCEPT !.startCalled = TRUE,
                                    !.startOk = start.success]
                ELSE /\ utility' = u1
                     /\ lastTick' = TickRecord("client", probe, "WiFi down")
                     /\ UNCHANGED hostapdActive

\* history of the dwell: a tick that ran the AP_FALLBACK branch with a good
\* probe continues or begins the run, a tick that ran the AP_FALLBACK
\* branch with a bad probe or ran the CLIENT_OK branch ends it, a tick that
\* did not monitor leaves it
DwellAfter(tick, now) ==
    IF tick.mode = "ap" /\ tick.probe
    THEN IF dwellFrom = 0 - 1 THEN now ELSE dwellFrom
    ELSE IF tick.mode \in {"ap", "client"} THEN 0 - 1
    ELSE dwellFrom

\* monitor_wifi_connection(): one whole tick
MonitorWifiConnection ==
    \E gap \in TickGaps, nm \in BOOLEAN, probe \in BOOLEAN :
    \E ssid \in IF probe THEN {<<>>, <<"TestNet">>} ELSE {<<>>},
       startOutcome \in IF probe THEN {"ok"} ELSE StartOutcomes,
       stopOutcome \in IF probe THEN StopOutcomes ELSE {"ok"} :
        /\ wallclock + gap <= MaxSeconds
        /\ wallclock' = wallclock + gap
        /\ nmSeen' = nm
        /\ IF ~MonitoringEnabled(utility)
           THEN /\ lastTick' = TickRecord("noop", FALSE, "WiFi monitoring disabled")
                /\ UNCHANGED <<utility, hostapdActive, failStreak, goodSince>>
           ELSE IF ~nm
           THEN /\ lastTick' = TickRecord("noop", FALSE, "NetworkManager not available")
                /\ UNCHANGED <<utility, hostapdActive, failStreak, goodSince>>
           ELSE IF IsApModeActive
           THEN /\ HandleApModeMonitoring(wallclock', probe, stopOutcome)
                /\ failStreak' = 0 - 1
           ELSE /\ HandleClientModeMonitoring(wallclock', GetWifiDownCount(utility),
                                              probe, ssid, startOutcome)
                /\ UNCHANGED goodSince
        /\ hostapdConf' =
             IF lastTick'.startCalled /\ lastTick'.startOk
             THEN HostapdConf(utility["ap_ssid"], utility["ap_password"])
             ELSE hostapdConf
        /\ dwellFrom' = DwellAfter(lastTick', wallclock')
        /\ UNCHANGED notWifi

\* views.wifi_monitor_toggle: the operator switches monitoring on or off
WifiMonitorToggle ==
    \E enabled \in BOOLEAN :
        /\ utility' = UpdateOrCreate(utility, "wifi_monitor_enabled",
                                     IF enabled THEN "true" ELSE "false")
        /\ UNCHANGED <<notWifi, wifiVars>>

NextWifi == MonitorWifiConnection \/ WifiMonitorToggle

\* views.ap_config, POST: each of ssid, password, channel present in the
\* request body is stored; data holds <<>> for a key that is not present
ApConfigPost(u, data) ==
    LET u1 == IF data.ssid # <<>>
              THEN UpdateOrCreate(u, "ap_ssid", data.ssid[1]) ELSE u
        u2 == IF data.password # <<>>
              THEN UpdateOrCreate(u1, "ap_password", data.password[1]) ELSE u1
    IN  IF data.channel # <<>>
        THEN UpdateOrCreate(u2, "ap_channel", Str(data.channel[1])) ELSE u2

\* request bodies of ap_config: nothing, everything, an empty password,
\* an SSID only, a password and a channel without an SSID
ApConfigInputs ==
    { [ssid |-> <<>>, password |-> <<>>, channel |-> <<>>],
      [ssid |-> <<"MyAP">>, password |-> <<"secret">>, channel |-> <<11>>],
      [ssid |-> <<>>, password |-> <<"">>, channel |-> <<>>],
      [ssid |-> <<"MyAP">>, password |-> <<>>, channel |-> <<>>],
      [ssid |-> <<>>, password |-> <<"secret">>, channel |-> <<11>>] }

\* RowsAfterRestart for a controller that kept its state in the process
RowsLostOnRestart(u) == [k \in Keys |-> NoRow]

\* the Utility rows after the scheduler process was stopped and started
\* again: the rows live in the database, _shutdown only has the player
\* clear its playback state
RowsAfterRestart(u) == Delete(u, StateKey)

\* run_scheduler is stopped (SIGTERM, _shutdown) and started again between
\* two monitor ticks; hostapd and dnsmasq are system services and stay
ProcessRestart ==
    /\ procStarts.n < MaxRestarts
    /\ utility' = RowsAfterRestart(utility)
    /\ procStarts' = [n |-> procStarts.n + 1,
                      midStreak |-> procStarts.midStreak
                                    \/ failStreak \in {1, 2},
                      midDwell |-> procStarts.midDwell \/ goodSince >= 0]
    /\ UNCHANGED <<schedVars, wifiVars, playerVars, buildVars, raceVars,
                   faultVars, syncVars>>

NextWifiRestart == NextWifi \/ ProcessRestart

(***************************************************************************)
(* Failures inside a tick: the entry store or the State Store raises, a    *)
(* collaborator raises inside an entry                                     *)
(***************************************************************************)
\* what a failing call raises: django.db.OperationalError (a subclass of
\* DatabaseError) from a store operation, RuntimeError from a collaborator
FailureKinds == {"DatabaseError", "RuntimeError"}

\* a handler written as 'except DatabaseError'
HandlerCatchesDatabaseErrorOnly(kind) == kind = "DatabaseError"

\* 'except Exception' (scheduler_jobs.py lines 89, 100, 180, 205, 242, 263,
\* 277, 288, 345, 380): every failure kind is a subclass of Exception
HandlerCatches(kind) == kind \in FailureKinds

\* the failure that was seen last: the tick it happened in and whether a
\* handler that returns "Error: ..." took it or a helper swallowed it
Fault(jobName, time, index, where) ==
    [n |-> faultLog.n + 1,
     at |-> [job |-> jobName, time |-> time, index |-> index, where |-> where],
     errors |-> IF where = "handler" THEN faultLog.errors + 1
                ELSE faultLog.errors]

\* lines 56-58 raise: Schedule.objects.filter(...).exists() with the
\* database unreachable (the marker read before it failed too and counted
\* as "not executed"); the handler at line 100 returns "Error: ..."
CheckScheduleQueryRaises ==
    \E kind \in FailureKinds :
        /\ job = "check_schedule"
        /\ faultLog.n < MaxFaults
        /\ spc = "idle"
        /\ LET t == Now(clock)
               done == IF NewMinute(t) THEN 0 ELSE minuteTicks
           IN  /\ done < MaxTicksPerMinute
               /\ tickMinute' = t
               /\ calls' = IF NewMinute(t) THEN NoCalls ELSE calls
               /\ tickCalls' = 0
               /\ tickPlayed' = <<>>
               /\ tickMarks' = 0
               /\ minuteTicks' = done + 1
               /\ faultLog' = Fault("check_schedule", t, done, "handler")
        /\ sResult' = IF HandlerCatches(kind) THEN Result("Error", 0)
                      ELSE Result("raised", 0)
        /\ escaped' = (escaped \/ ~HandlerCatches(kind))
        /\ UNCHANGED <<utility, clock, schedules, spc, current_time, sQueue,
                       executed_count, restarts, job>>
        /\ UNCHANGED <<wifiVars, playerVars, buildVars, raceVars, procVars,
                       syncVars>>

\* _already_executed_this_minute raises inside (the row cannot be read or
\* its JSON cannot be parsed): lines 180-182 return False, the tick goes on
CheckScheduleMarkerUnreadable ==
    \E kind \in FailureKinds :
        /\ job = "check_schedule"
        /\ faultLog.n < MaxFaults
        /\ HandlerCatches(kind)
        /\ BeginTick(FALSE)
        /\ faultLog' = Fault("check_schedule", Now(clock),
                             IF NewMinute(Now(clock)) THEN 0 ELSE minuteTicks,
                             "absorbed")
        /\ UNCHANGED <<job, escaped>>
        /\ UNCHANGED <<wifiVars, playerVars, buildVars, raceVars, procVars,
                       syncVars>>

\* a loop that is left by the exception of one entry
RestDropped(queue) == <<>>

\* lines 89-91: the handler is inside the for-loop, the loop goes on with
\* the rows after the one that raised
RestAfterFailure(queue) == Tail(queue)

\* the body of one loop iteration raises before play_sequence is reached
\* (schedule.notification_days.all(), get_audio_player()): the handler at
\* line 89 logs it and the loop goes on with the next entry
CheckScheduleEntryRaises ==
    \E kind \in FailureKinds :
        /\ job = "check_schedule"
        /\ faultLog.n < MaxFaults
        /\ spc = "loop"
        /\ sQueue # <<>>
        /\ faultLog' = Fault("check_schedule", tickMinute, minuteTicks,
                             "absorbed")
        /\ escaped' = (escaped \/ ~HandlerCatches(kind))
        /\ IF HandlerCatches(kind)
           THEN /\ sQueue' = RestAfterFailure(sQueue)
                /\ UNCHANGED <<spc, sResult, minuteTicks>>
           ELSE /\ sQueue' = <<>>
                /\ spc' = "idle"
                /\ sResult' = Result("raised", 0)
                /\ minuteTicks' = minuteTicks + 1
        /\ UNCHANGED <<utility, clock, schedules, current_time,
                       executed_count, tickMinute, calls, tickCalls,
                       tickPlayed, tickMarks, restarts, job>>
        /\ UNCHANGED <<wifiVars, playerVars, buildVars, raceVars, procVars,
                       syncVars>>

\* _mark_executed raises inside: lines 205-206 log it, no marker is
\* written and the tick returns "Executed n schedule(s)"
CheckScheduleMarkFails ==
    \E kind \in FailureKinds :
        /\ job = "check_schedule"
        /\ faultLog.n < MaxFaults
        /\ spc = "loop"
        /\ sQueue = <<>>
        /\ faultLog' = Fault("check_schedule", tickMinute, minuteTicks,
                             "absorbed")
        /\ escaped' = (escaped \/ ~HandlerCatches(kind))
        /\ sResult' = IF HandlerCatches(kind)
                      THEN Result("Executed", executed_count)
                      ELSE Result("raised", 0)
        /\ minuteTicks' = minuteTicks + 1
        /\ spc' = "idle"
        /\ UNCHANGED <<utility, clock, schedules, current_time, sQueue,
                       executed_count, tickMinute, calls, tickCalls,
                       tickPlayed, tickMarks, restarts, job>>
        /\ UNCHANGED <<wifiVars, playerVars, buildVars, raceVars, procVars,
                       syncVars>>

\* monitor_wifi_connection with the database unreachable for the whole tick
\*   line 242   the toggle read raises, 'pass', the tick goes on
\*   line 277   _get_wifi_down_count returns 0
\*   line 288   _set_wifi_down_count writes nothing
\*   AP mode    probe good: the read at line 306 raises, line 345 returns
\*              "Error: ..."; probe bad: the delete at line 350 raises,
\*              line 263 returns "Error: ..."
\*   client     probe good: "WiFi connection OK" (the SSID write is
\*              swallowed at line 380); probe bad: "WiFi down: 1/3"
MonitorWifiStoreDown ==
    \E gap \in TickGaps, nm \in BOOLEAN, probe \in BOOLEAN,
       kind \in FailureKinds :
        /\ job = "monitor_wifi"
        /\ faultLog.n < MaxFaults
        /\ wallclock + gap <= MaxSeconds
        /\ wallclock' = wallclock + gap
        /\ nmSeen' = nm
        /\ escaped' = (escaped \/ ~HandlerCatches(kind))
        /\ LET result ==
                 IF ~HandlerCatches(kind) THEN "raised"
                 ELSE IF ~nm THEN "NetworkManager not available"
                 ELSE IF IsApModeActive THEN "Error"
                 ELSE IF probe THEN "WiFi connection OK"
                 ELSE "WiFi down"
               mode == IF ~HandlerCatches(kind) \/ ~nm THEN "noop"
                       ELSE IF IsApModeActive THEN "ap" ELSE "client"
           IN  /\ lastTick' = TickRecord(mode, probe /\ mode # "noop", result)
               /\ faultLog' = Fault("monitor_wifi", wallclock', 0,
                                    IF result = "Error" THEN "handler"
                                    ELSE "absorbed")
        /\ failStreak' = 0 - 1
        /\ dwellFrom' = DwellAfter(lastTick', wallclock')
        /\ UNCHANGED <<utility, hostapdActive, goodSince, hostapdConf, job>>
        /\ UNCHANGED <<schedVars, playerVars, buildVars, raceVars, procVars,
                       syncVars>>

\* the database becomes unreachable after start_ap_mode returned success:
\* the counter was written at line 386, update_or_create at line 409 raises
\* and the handler at line 263 returns "Error: ..."; hostapd is running
MonitorWifiStoreFailsAfterStart ==
    \E gap \in TickGaps, kind \in FailureKinds :
        /\ job = "monitor_wifi"
        /\ faultLog.n < MaxFaults
        /\ wallclock + gap <= MaxSeconds
        /\ MonitoringEnabled(utility)
        /\ ~IsApModeActive
        /\ ReachedThreshold(GetWifiDownCount(utility) + 1)
        /\ wallclock' = wallclock + gap
        /\ nmSeen' = TRUE
        /\ utility' = SetWifiDownCount(utility, GetWifiDownCount(utility) + 1)
        /\ hostapdActive' =
             StartApMode(utility["ap_ssid"], utility["ap_password"], "ok").hostapd
        /\ escaped' = (escaped \/ ~HandlerCatches(kind))
        /\ lastTick' =
             [TickRecord("client", FALSE,
                         IF HandlerCatches(kind) THEN "Error" ELSE "raised")
                EXCEPT !.startCalled = TRUE, !.startOk = TRUE]
        /\ faultLog' = Fault("monitor_wifi", wallclock', 0, "handler")
        /\ failStreak' = 0 - 1
        /\ hostapdConf' = HostapdConf(utility["ap_ssid"], utility["ap_password"])
        /\ dwellFrom' = DwellAfter(lastTick', wallclock')
        /\ UNCHANGED <<goodSince, job>>
        /\ UNCHANGED <<schedVars, playerVars, buildVars, raceVars, procVars,
                       syncVars>>

\* the database becomes unreachable after stop_ap_mode returned True:
\* _set_wifi_down_count(0) writes nothing, the delete at line 326 raises
\* and the handler at line 345 returns "Error: ..."; the rows stay
MonitorWifiStoreFailsAfterStop ==
    \E gap \in TickGaps, kind \in FailureKinds,
       stopOutcome \in {"ok", "nonzero_exit"} :
        /\ job = "monitor_wifi"
        /\ faultLog.n < MaxFaults
        /\ wallclock + gap <= MaxSeconds
        /\ MonitoringEnabled(utility)
        /\ IsApModeActive
        /\ utility["wifi_back_time"] # NoRow
        /\ IsNumeric(utility["wifi_back_time"][1])
        /\ wallclock + gap - ParseDigits(utility["wifi_back_time"][1])
             >= DWELL_SECONDS
        /\ wallclock' = wallclock + gap
        /\ nmSeen' = TRUE
        /\ hostapdActive' = StopApMode(stopOutcome).hostapd
        /\ escaped' = (escaped \/ ~HandlerCatches(kind))
        /\ lastTick' =
             [TickRecord("ap", TRUE,
                         IF HandlerCatches(kind) THEN "Error" ELSE "raised")
                EXCEPT !.stopCalled = TRUE, !.stopOk = TRUE]
        /\ faultLog' = Fault("monitor_wifi", wallclock', 0, "handler")
        /\ failStreak' = 0 - 1
        /\ dwellFrom' = DwellAfter(lastTick', wallclock')
        /\ UNCHANGED <<utility, goodSince, hostapdConf, job>>
        /\ UNCHANGED <<schedVars, playerVars, buildVars, raceVars, procVars,
                       syncVars>>

\* ticks of either job, with and without failures
NextFaulty ==
    \/ /\ job = "check_schedule"
       /\ \/ NextSched
          \/ CheckScheduleQueryRaises
          \/ CheckScheduleMarkerUnreadable
          \/ CheckScheduleEntryRaises
          \/ CheckScheduleMarkFails
    \/ /\ job = "monitor_wifi"
       /\ \/ MonitorWifiConnection
          \/ MonitorWifiStoreDown
          \/ MonitorWifiStoreFailsAfterStart
          \/ MonitorWifiStoreFailsAfterStop


(***************************************************************************)
(* Audio player                                                            *)
(***************************************************************************)
Callers == {1, 2}
SeqCallers == {1}

SoundA == <<"sound", 1>>
SoundB == <<"sound", 2>>
SoundMissing == <<"sound", 9>>

\* the sound_paths arguments tried
PlayLists == {<<>>, <<SoundA>>, <<SoundA, SoundB>>, <<SoundA, SoundMissing>>}

IdleCaller == [pc |-> "idle", op |-> "none", paths |-> <<>>, callno |-> 0,
               result |-> "none"]

\* Thread.is_alive()
Alive(w) == workers[w].pc # "done"

WorkerIds == 1..Len(workers)

\* _get_state().get('is_playing', False): _get_state returns {} for a
\* missing row and for a value json.loads rejects (lines 81-88)
StateIsPlaying(u) ==
    /\ u[StateKey] # NoRow
    /\ "is_playing" \in DOMAIN u[StateKey][1]
    /\ u[StateKey][1].is_playing

\* the state dict of _play_worker
PlaybackState(w, idx, file) ==
    [is_playing |-> TRUE, schedule_id |-> workers[w].sid,
     playlist |-> workers[w].paths, current_index |-> idx,
     current_file |-> file]

\* pygame.mixer.music.stop() in stop(), guarded by self._initialized
MusicAfterStop == IF initialized THEN <<>> ELSE music

\* play_sequence lines 149-157: empty list returns, a missing file raises
CallPlaySequence(c) ==
    \E paths \in PlayLists :
        /\ callers[c].pc = "idle"
        /\ ncalls < MaxCalls
        /\ ncalls' = ncalls + 1
        /\ callers' = [callers EXCEPT ![c] =
              [pc |-> IF paths = <<>> \/ ~AllExist(paths)
                      THEN "idle" ELSE "is_playing",
               op |-> "play", paths |-> paths, callno |-> ncalls + 1,
               result |-> IF paths = <<>> THEN "returned"
                          ELSE IF ~AllExist(paths) THEN "FileNotFoundError"
                          ELSE "running"]]
        /\ UNCHANGED <<utility, notPlayer, lockHolder, stopEvent,
                       playThread, initialized, workers, music, joinTimeouts>>

\* is_playing() as called at line 160, under self._lock
IsPlaying(c) ==
    /\ callers[c].pc = "is_playing"
    /\ lockHolder = 0
    /\ LET playing == \/ (playThread # 0 /\ Alive(playThread))
                      \/ StateIsPlaying(utility)
       IN  callers' = [callers EXCEPT ![c].pc =
                          IF playing THEN "stop" ELSE "start"]
    /\ UNCHANGED <<utility, notPlayer, lockHolder, stopEvent,
                   playThread, initialized, workers, music, ncalls,
                   joinTimeouts>>

\* a caller invokes stop() directly
CallStop(c) ==
    /\ callers[c].pc = "idle"
    /\ ncalls < MaxCalls
    /\ ncalls' = ncalls + 1
    /\ callers' = [callers EXCEPT ![c] =
          [pc |-> "stop", op |-> "stop", paths |-> <<>>,
           callno |-> ncalls + 1, result |-> "running"]]
    /\ UNCHANGED <<utility, notPlayer, lockHolder, stopEvent,
                   playThread, initialized, workers, music, joinTimeouts>>

\* stop() lines 238-247: take the lock, set the event, halt the mixer
StopBegin(c) ==
    /\ callers[c].pc = "stop"
    /\ lockHolder = 0
    /\ lockHolder' = c
    /\ stopEvent' = TRUE
    /\ music' = MusicAfterStop
    /\ callers' = [callers EXCEPT ![c].pc = "join"]
    /\ UNCHANGED <<utility, notPlayer, playThread, initialized,
                   workers, ncalls, joinTimeouts>>

\* a join() without a timeout returns only when the thread has ended
JoinReturnsWhenDead(thread) == IF thread = 0 THEN TRUE ELSE ~Alive(thread)

\* lines 250-253: join(timeout=2.0) is only called for a live thread and
\* returns when the thread has ended or when the 2 s have run out
JoinReturns(thread) == TRUE

\* stop() lines 249-256: join(timeout=2.0) returns because the worker ended
\* or because the 2 s ran out; then _clear_state()
StopFinish(c) ==
    /\ callers[c].pc = "join"
    /\ lockHolder = c
    /\ JoinReturns(playThread)
    /\ joinTimeouts' = IF playThread # 0 /\ Alive(playThread)
                       THEN joinTimeouts + 1 ELSE joinTimeouts
    /\ utility' = Delete(utility, StateKey)
    /\ callers' = [callers EXCEPT ![c].pc = "return"]
    /\ UNCHANGED <<notPlayer, lockHolder, stopEvent, playThread, initialized,
                   workers, music, ncalls>>

\* stop() line 257 and the end of the with-block: forget the thread,
\* release the lock and return
StopReturn(c) ==
    /\ callers[c].pc = "return"
    /\ lockHolder = c
    /\ playThread' = 0
    /\ lockHolder' = 0
    /\ callers' = [callers EXCEPT ![c] =
          IF callers[c].op = "play" THEN [@ EXCEPT !.pc = "start"]
          ELSE [@ EXCEPT !.pc = "idle", !.result = "returned"]]
    /\ UNCHANGED <<utility, notPlayer, stopEvent, initialized, workers,
                   music, ncalls, joinTimeouts>>

\* play_sequence lines 164-173: clear the event, create and start the thread
StartWorker(c) ==
    /\ callers[c].pc = "start"
    /\ stopEvent' = FALSE
    /\ workers' = Append(workers, [pc |-> "init", paths |-> callers[c].paths,
                                   sid |-> callers[c].callno, idx |-> 1,
                                   errors |-> {}])
    /\ playThread' = Len(workers) + 1
    /\ callers' = [callers EXCEPT ![c].pc = "idle", ![c].result = "returned"]
    /\ UNCHANGED <<utility, notPlayer, lockHolder, initialized,
                   music, ncalls, joinTimeouts>>


\* _play_worker lines 183-194: _init_pygame (may raise), publish the state
WorkerInit(w) ==
    \E initOk \in BOOLEAN :
        /\ workers[w].pc = "init"
        /\ IF initialized \/ initOk
           THEN /\ initialized' = TRUE
                /\ utility' = UpdateOrCreate(utility, StateKey,
                                             PlaybackState(w, 0, <<>>))
                /\ workers' = [workers EXCEPT ![w].pc = "loop"]
           ELSE /\ workers' = [workers EXCEPT ![w].pc = "finally"]
                /\ UNCHANGED <<utility, initialized>>
        /\ UNCHANGED <<notPlayer, lockHolder, stopEvent, playThread,
                       music, callers, ncalls, joinTimeouts>>

\* a worker that left the for-loop when load() or play() raised
AbortAfterPlaybackError(worker, idx) ==
    [worker EXCEPT !.pc = "finally", !.errors = @ \cup {idx}]

\* _play_worker lines 219-221: the except branch logs the error and the
\* for-loop goes on with the next index (errors records the files that raised)
AfterPlaybackError(worker, idx) ==
    [worker EXCEPT !.idx = idx + 1, !.errors = @ \cup {idx}]

\* the files that raised so far, as (worker, index) pairs
PlayErrors ==
    UNION {{<<w, i>> : i \in workers[w].errors} : w \in 1..Len(workers)}

\* _play_worker lines 197-210: top of the for-loop, up to music.play()
WorkerNextFile(w) ==
    \E playOk \in BOOLEAN :
        /\ workers[w].pc = "loop"
        /\ playOk \/ ~initialized \/ Cardinality(PlayErrors) < MaxPlayErrors
        \* load() raises when the mixer has been shut (cleanup, line 268)
        /\ playOk => initialized
        /\ LET idx == workers[w].idx
               paths == workers[w].paths
           IN  IF idx > Len(paths) \/ stopEvent
               THEN /\ workers' = [workers EXCEPT ![w].pc = "finally"]
                    /\ UNCHANGED <<utility, music>>
               ELSE /\ utility' = UpdateOrCreate(utility, StateKey,
                                    PlaybackState(w, idx - 1, <<paths[idx]>>))
                    /\ IF playOk
                       THEN /\ music' = <<w, idx>>
                            /\ workers' = [workers EXCEPT ![w].pc = "wait"]
                       ELSE /\ workers' = [workers EXCEPT ![w] =
                                              AfterPlaybackError(@, idx)]
                            /\ UNCHANGED music
        /\ UNCHANGED <<notPlayer, lockHolder, stopEvent, playThread,
                       initialized, callers, ncalls, joinTimeouts>>

\* _play_worker lines 213-217: the wait loop leaves when the mixer is idle
\* or when the stop event is seen (then it halts the mixer)
WorkerWait(w) ==
    /\ workers[w].pc = "wait"
    /\ music = <<>> \/ stopEvent
    /\ music' = <<>>
    /\ workers' = [workers EXCEPT ![w].pc = "loop", ![w].idx = @ + 1]
    /\ UNCHANGED <<utility, notPlayer, lockHolder, stopEvent,
                   playThread, initialized, callers, ncalls, joinTimeouts>>

\* a _clear_state that leaves the row in place
StateKept(u) == u

\* _clear_state lines 105-110: delete the audio_playback_state row
ClearState(u) == Delete(u, StateKey)

\* _play_worker lines 227-230: the finally block
WorkerFinally(w) ==
    /\ workers[w].pc = "finally"
    /\ utility' = ClearState(utility)
    /\ stopEvent' = FALSE
    /\ workers' = [workers EXCEPT ![w].pc = "done"]
    /\ UNCHANGED <<notPlayer, lockHolder, playThread, initialized,
                   music, callers, ncalls, joinTimeouts>>

\* the file being played comes to its end
MusicEnds ==
    /\ music # <<>>
    /\ music' = <<>>
    /\ UNCHANGED <<utility, notPlayer, lockHolder, stopEvent,
                   playThread, initialized, workers, callers, ncalls,
                   joinTimeouts>>

WorkerStep ==
    \E w \in WorkerIds :
        WorkerInit(w) \/ WorkerNextFile(w) \/ WorkerWait(w) \/ WorkerFinally(w)

\* one thread calls the player
NextPlayer ==
    \/ \E c \in SeqCallers :
          CallPlaySequence(c) \/ IsPlaying(c) \/ CallStop(c) \/ StopBegin(c)
          \/ StopFinish(c) \/ StopReturn(c) \/ StartWorker(c)
    \/ WorkerStep
    \/ MusicEnds

\* two threads call the player
NextPlayerConc ==
    \/ \E c \in Callers :
          CallPlaySequence(c) \/ IsPlaying(c) \/ CallStop(c) \/ StopBegin(c)
          \/ StopFinish(c) \/ StopReturn(c) \/ StartWorker(c)
    \/ WorkerStep
    \/ MusicEnds

\* two threads call the player a few times with a list of two files that
\* both play
NextPlayerFair ==
    /\ NextPlayerConc
    /\ ncalls' <= MaxFairCalls
    /\ \A c \in Callers : callers'[c].paths \in {<<>>, <<SoundA, SoundB>>}
    /\ \A w \in 1..Len(workers') : workers'[w].errors = {}

\* one thread calls the player a few times
NextPlayerFew == NextPlayer /\ ncalls' <= MaxSequences

\* the steps of the worker thread of the w-th started sequence
WorkerSteps(w) ==
    /\ w \in WorkerIds
    /\ (WorkerInit(w) \/ WorkerNextFile(w) \/ WorkerWait(w)
          \/ WorkerFinally(w))

\* the steps a calling thread takes by itself once it is inside
\* play_sequence or stop
CallerStep(c) ==
    IsPlaying(c) \/ StopBegin(c) \/ StopFinish(c) \/ StopReturn(c)
    \/ StartWorker(c)

(***************************************************************************)
(* run_scheduler: _shutdown while a job is running                         *)
(***************************************************************************)
\* the scheduler's worker thread running a check_schedule job, and the main
\* thread of the command
JobThread == 1
MainThread == 2

\* the check_schedule job dispatches an entry, or is inside play_sequence
JobStep ==
    /\ callers[JobThread].op # "job_done"
    /\ (CallPlaySequence(JobThread) \/ IsPlaying(JobThread)
          \/ StopBegin(JobThread) \/ StopFinish(JobThread)
          \/ StopReturn(JobThread) \/ StartWorker(JobThread))
    /\ ncalls' <= MaxSequences

\* the check_schedule job returns
JobReturns ==
    /\ callers[JobThread].pc = "idle"
    /\ callers[JobThread].op # "job_done"
    /\ callers' = [callers EXCEPT ![JobThread].op = "job_done"]
    /\ UNCHANGED <<utility, notPlayer, lockHolder, stopEvent, playThread,
                   initialized, workers, music, ncalls, joinTimeouts>>

\* _shutdown line 231: player.stop() is called
ShutdownStop ==
    /\ callers[MainThread].op = "none"
    /\ callers' = [callers EXCEPT ![MainThread] =
          [pc |-> "stop", op |-> "shutdown_stop", paths |-> <<>>,
           callno |-> 0, result |-> "running"]]
    /\ UNCHANGED <<utility, notPlayer, lockHolder, stopEvent, playThread,
                   initialized, workers, music, ncalls, joinTimeouts>>

\* _shutdown line 232, cleanup line 265: stop() is called once more
CleanupStop ==
    /\ callers[MainThread].op = "shutdown_stop"
    /\ callers[MainThread].pc = "idle"
    /\ callers' = [callers EXCEPT ![MainThread] =
          [@ EXCEPT !.pc = "stop", !.op = "cleanup_stop",
                    !.result = "running"]]
    /\ UNCHANGED <<utility, notPlayer, lockHolder, stopEvent, playThread,
                   initialized, workers, music, ncalls, joinTimeouts>>

\* cleanup lines 266-270: pygame.mixer.quit() when the mixer is initialised
MixerQuit ==
    /\ callers[MainThread].op = "cleanup_stop"
    /\ callers[MainThread].pc = "idle"
    /\ initialized' = FALSE
    /\ music' = IF initialized THEN <<>> ELSE music
    /\ callers' = [callers EXCEPT ![MainThread].op = "mixer_quit"]
    /\ UNCHANGED <<utility, notPlayer, lockHolder, stopEvent, playThread,
                   workers, ncalls, joinTimeouts>>

\* _shutdown lines 238-241: scheduler.shutdown(wait=True) returns when the
\* running job has returned
SchedulerShutdown ==
    /\ callers[MainThread].op = "mixer_quit"
    /\ callers[JobThread].op = "job_done"
    /\ callers' = [callers EXCEPT ![MainThread].op = "shut_down"]
    /\ UNCHANGED <<utility, notPlayer, lockHolder, stopEvent, playThread,
                   initialized, workers, music, ncalls, joinTimeouts>>

\* the main thread inside stop()
MainStopStep ==
    StopBegin(MainThread) \/ StopFinish(MainThread) \/ StopReturn(MainThread)

\* a job runs, SIGTERM arrives at any point and _shutdown runs
NextShutdown ==
    \/ JobStep
    \/ JobReturns
    \/ ShutdownStop
    \/ MainStopStep
    \/ CleanupStop
    \/ MixerQuit
    \/ SchedulerShutdown
    \/ WorkerStep
    \/ MusicEnds

(***************************************************************************)
(* _build_sound_sequence called on its own                                 *)
(***************************************************************************)
\* the configurations of a Schedule row that the assembly looks at
BuildSchedules ==
    { [id |-> 0, hour |-> 0, minute |-> 0, days |-> {},
       enable_bell_sound |-> e, bell_sound |-> b, tell_time |-> t,
       sound |-> c] :
         e \in BOOLEAN, b \in {NoBell, Bell1}, t \in BOOLEAN,
         c \in {<<>>, << <<"sound", 1>> >>} }

NoBuild == [schedule |-> CHOOSE x \in BuildSchedules : TRUE,
            hour |-> 0, minute |-> 0, called |-> FALSE]

\* sound_paths = _build_sound_sequence(schedule, hour, minute)
BuildCall ==
    /\ ~buildArgs.called
    /\ sound_paths' = BuildSoundSequence(buildArgs.schedule, buildArgs.hour,
                                         buildArgs.minute)
    /\ buildArgs' = [buildArgs EXCEPT !.called = TRUE]
    /\ UNCHANGED <<utility, schedVars, wifiVars, playerVars, auxVars>>

NextBuild == BuildCall

(***************************************************************************)
(* The scheduler's jobs and sync_schedules_to_apscheduler                  *)
(***************************************************************************)
\* a job id: the three jobs of _add_jobs, and f"alarm_{schedule.id}"
CheckScheduleJob == <<"check_schedule", 0>>
MonitorWifiJob == <<"monitor_wifi", 0>>
SyncSchedulesJob == <<"sync_schedules", 0>>
AlarmJob(id) == <<"alarm_", id>>

\* run_scheduler._add_jobs: monitor_wifi is left out with --no-wifi-monitor
AddJobs(no_wifi_monitor) ==
    {CheckScheduleJob, SyncSchedulesJob}
        \cup (IF no_wifi_monitor THEN {} ELSE {MonitorWifiJob})

NoStats == [created |-> 0, updated |-> 0, removed |-> 0, errors |-> 0]

\* a reconciliation that registers a job for the entry
JobsWithAlarmAdded(js, id) == js \cup {AlarmJob(id)}

\* lines 481-490: an existing alarm_<id> job is removed, none is added
JobsAfterEntry(js, id) == js \ {AlarmJob(id)}

\* lines 475-494: the loop over Schedule.objects.all()
RECURSIVE SyncEntries(_, _, _)
SyncEntries(js, stats, queue) ==
    IF queue = <<>> THEN [jobs |-> js, stats |-> stats]
    ELSE LET job_id == AlarmJob(Head(queue).id)
         IN  SyncEntries(JobsAfterEntry(js, Head(queue).id),
                         IF job_id \in js
                         THEN [stats EXCEPT !.updated = @ + 1]
                         ELSE [stats EXCEPT !.created = @ + 1],
                         Tail(queue))

\* lines 500-510: jobs named alarm_<id> whose id is no Schedule row's
OrphanJobs(js, schedule_ids) ==
    {j \in js : j[1] = "alarm_" /\ j[2] \notin schedule_ids}

\* sync_schedules_to_apscheduler(scheduler), lines 463-513
SyncSchedules(js, rows) ==
    LET loop == SyncEntries(js, NoStats, InIdOrder(rows))
        schedule_ids == {r.id : r \in rows}
        orphans == OrphanJobs(loop.jobs, schedule_ids)
    IN  [jobs |-> loop.jobs \ orphans,
         stats |-> [loop.stats EXCEPT !.removed = Cardinality(orphans)]]

\* the sync_schedules job runs
SyncSchedulesToApscheduler ==
    /\ Len(syncReturns) < MaxSyncs
    /\ LET r == SyncSchedules(jobs, schedules)
       IN  /\ jobs' = r.jobs
           /\ syncReturns' = Append(syncReturns, r.stats)
    /\ UNCHANGED <<utility, schedVars, wifiVars, playerVars, buildVars,
                   raceVars, faultVars, procVars>>

(***************************************************************************)
(* Rows that do not parse, left in the Utility table by something else     *)
(***************************************************************************)
\* one of the jobs, or calls of the player, runs over the rows
NextMalformed ==
    \/ job = "check_schedule" /\ NextSched
    \/ job = "monitor_wifi" /\ MonitorWifiConnection
    \/ job = "player" /\ NextPlayerFew

\* check_schedule ticks and runs of the reconciliation job
NextSync == NextSched \/ SyncSchedulesToApscheduler

(***************************************************************************)
(* Initial states and specifications                                       *)
(***************************************************************************)
\* the process was started with the WiFi monitor job
InitSyncVars ==
    /\ jobs = AddJobs(FALSE)
    /\ syncReturns = <<>>

InitUtility == utility = [k \in Keys |-> NoRow]

InitSchedVars(rows) ==
    /\ clock = 0
    /\ schedules = rows
    /\ spc = "idle"
    /\ current_time = NoTime
    /\ sQueue = <<>>
    /\ executed_count = 0
    /\ sResult = Result("none", 0)
    /\ tickMinute = NoTime
    /\ calls = NoCalls
    /\ tickCalls = 0
    /\ tickPlayed = <<>>
    /\ tickMarks = 0
    /\ minuteTicks = 0
    /\ restarts = 0

InitWifiVars ==
    /\ wallclock = 0
    /\ hostapdActive = FALSE
    /\ lastTick = TickRecord("none", FALSE, "none")
    /\ failStreak = 0
    /\ goodSince = 0 - 2
    /\ nmSeen = TRUE
    /\ dwellFrom = 0 - 1
    /\ hostapdConf = NoConf

InitPlayerVars ==
    /\ lockHolder = 0
    /\ stopEvent = FALSE
    /\ playThread = 0
    /\ initialized = FALSE
    /\ workers = <<>>
    /\ music = <<>>
    /\ callers = [c \in Callers |-> IdleCaller]
    /\ ncalls = 0
    /\ joinTimeouts = 0

InitBuildVars ==
    /\ buildArgs = NoBuild
    /\ sound_paths = <<>>

NoFaults ==
    [n |-> 0,
     at |-> [job |-> "none", time |-> 0, index |-> 0, where |-> "none"],
     errors |-> 0]

NoStarts == [n |-> 0, midStreak |-> FALSE, midDwell |-> FALSE]

InitAuxVars ==
    /\ racer = NoRacer
    /\ job = "none"
    /\ escaped = FALSE
    /\ faultLog = NoFaults
    /\ procStarts = NoStarts
    /\ InitSyncVars

\* the configuration layer has stored any set of Schedule rows
InitSched ==
    /\ InitUtility
    /\ \E rows \in SUBSET CandidateSchedules : InitSchedVars(rows)
    /\ InitWifiVars
    /\ InitPlayerVars
    /\ InitBuildVars
    /\ InitAuxVars

\* any set of Schedule rows, the process started with or without
\* --no-wifi-monitor
InitSync ==
    /\ InitUtility
    /\ \E rows \in SUBSET CandidateSchedules : InitSchedVars(rows)
    /\ InitWifiVars
    /\ InitPlayerVars
    /\ InitBuildVars
    /\ racer = NoRacer
    /\ job = "none"
    /\ escaped = FALSE
    /\ faultLog = NoFaults
    /\ procStarts = NoStarts
    /\ \E no_wifi_monitor \in BOOLEAN : jobs = AddJobs(no_wifi_monitor)
    /\ syncReturns = <<>>

\* one row holds a value that does not parse: the idempotency marker
\* before check_schedule ticks, the failure counter before monitor ticks,
\* the dwell timestamp before monitor ticks with the access point up after
\* a fallback, the playback state before calls of the player
InitMalformed ==
    /\ InitPlayerVars
    /\ InitBuildVars
    /\ racer = NoRacer
    /\ escaped = FALSE
    /\ faultLog = NoFaults
    /\ procStarts = NoStarts
    /\ InitSyncVars
    /\ LET none == [k \in Keys |-> NoRow]
           on == UpdateOrCreate(none, "wifi_monitor_enabled", "true")
       IN  \/ /\ job = "check_schedule"
              /\ \E rows \in SUBSET {r \in CandidateSchedules : r.id \in {1, 2}} :
                    InitSchedVars(rows)
              /\ InitWifiVars
              /\ \E v \in {NotJson, BadTimestampMarker} :
                    utility = UpdateOrCreate(none, ExecKey, v)
           \/ /\ job = "monitor_wifi"
              /\ InitSchedVars({})
              /\ InitWifiVars
              /\ utility = UpdateOrCreate(on, "wifi_down_count", NotANumber)
           \/ /\ job = "monitor_wifi"
              /\ InitSchedVars({})
              /\ wallclock = 0
              /\ hostapdActive = TRUE
              /\ lastTick = TickRecord("none", FALSE, "none")
              /\ failStreak = 0 - 1
              /\ goodSince = 0 - 1
              /\ nmSeen = TRUE
              /\ dwellFrom = 0 - 1
              /\ hostapdConf = HostapdConf(<<>>, <<>>)
              /\ utility = UpdateOrCreate(
                              SaveFallbackState(on, 0,
                                  StartApMode(<<>>, <<>>, "ok").ap_info),
                              "wifi_back_time", NotANumber)
           \/ /\ job = "player"
              /\ InitSchedVars({})
              /\ InitWifiVars
              /\ utility = UpdateOrCreate(none, StateKey, NotJson)

\* any Schedule configuration at any time of day
InitBuild ==
    /\ InitUtility
    /\ InitSchedVars({})
    /\ InitWifiVars
    /\ InitPlayerVars
    /\ \E sch \in BuildSchedules, h \in 0..LastHour, m \in 0..LastMinute :
          buildArgs = [schedule |-> sch, hour |-> h, minute |-> m,
                       called |-> FALSE]
    /\ sound_paths = <<>>
    /\ InitAuxVars

Init ==
    /\ InitUtility
    /\ InitSchedVars({})
    /\ InitWifiVars
    /\ InitPlayerVars
    /\ InitBuildVars
    /\ InitAuxVars

\* the operator has posted an AP configuration before the monitor runs
InitWifiConfig ==
    /\ \E data \in ApConfigInputs :
          utility = ApConfigPost([k \in Keys |-> NoRow], data)
    /\ InitSchedVars({})
    /\ InitWifiVars
    /\ InitPlayerVars
    /\ InitBuildVars
    /\ InitAuxVars

\* check_schedule ticks in which the processing of an entry may raise
NextIsolation ==
    /\ job = "check_schedule"
    /\ (NextSched \/ CheckScheduleEntryRaises)

InitIsolation ==
    /\ InitUtility
    /\ \E rows \in SUBSET CandidateSchedules : InitSchedVars(rows)
    /\ InitWifiVars
    /\ InitPlayerVars
    /\ InitBuildVars
    /\ racer = NoRacer
    /\ job = "check_schedule"
    /\ escaped = FALSE
    /\ faultLog = NoFaults
    /\ procStarts = NoStarts
    /\ InitSyncVars

\* the tick driver runs one of the two jobs: check_schedule over entries of
\* one minute (one that plays, one whose sound file is missing), or
\* monitor_wifi_connection after the operator switched monitoring on
InitFaulty ==
    /\ InitWifiVars
    /\ InitPlayerVars
    /\ InitBuildVars
    /\ racer = NoRacer
    /\ escaped = FALSE
    /\ faultLog = NoFaults
    /\ procStarts = NoStarts
    /\ InitSyncVars
    /\ \/ /\ job = "check_schedule"
          /\ InitUtility
          /\ \E rows \in SUBSET {s \in CandidateSchedules : s.id \in {2, 4}} :
                InitSchedVars(rows)
       \/ /\ job = "monitor_wifi"
          /\ utility = UpdateOrCreate([k \in Keys |-> NoRow],
                                      "wifi_monitor_enabled", "true")
          /\ InitSchedVars({})

\* check_schedule ticks run one after another
SpecSched == InitSched /\ [][NextSched]_vars

\* the scheduler process may stop inside a tick and be started again
SpecRestart == InitSched /\ [][NextRestart]_vars

\* monitor_wifi_connection ticks
SpecWifi == Init /\ [][NextWifi]_vars

\* the player driven by one calling thread
SpecPlayer == Init /\ [][NextPlayer]_vars

\* the player driven by two calling threads
SpecPlayerConc == Init /\ [][NextPlayerConc]_vars

\* _build_sound_sequence applied to any configuration and time of day
SpecBuild == InitBuild /\ [][NextBuild]_vars

\* monitor_wifi_connection ticks with restarts of the process between them
SpecWifiRestart == Init /\ [][NextWifiRestart]_vars

\* check_schedule run by two scheduler processes at once
SpecOverlap == InitSched /\ [][NextOverlap]_vars

\* two calling threads that are scheduled again and again; nothing is
\* assumed about the worker threads and the mixer, which may stall for ever
FairSpecPlayerConc ==
    /\ Init
    /\ [][NextPlayerFair]_vars
    /\ \A c \in Callers : WF_vars(CallerStep(c))

\* one calling thread; every worker thread that can take a step is
\* scheduled in the end, and a file that is playing comes to its end unless
\* it is halted first
FairSpecPlayer ==
    /\ Init
    /\ [][NextPlayerFew]_vars
    /\ \A w \in 1..MaxSequences : WF_vars(WorkerSteps(w))
    /\ WF_vars(MusicEnds)

\* check_schedule ticks and the reconciliation job
SpecSync == InitSync /\ [][NextSync]_vars

\* the jobs and the player over rows that do not parse
SpecMalformed == InitMalformed /\ [][NextMalformed]_vars

\* a check_schedule job and the shutdown of the command
SpecShutdown == Init /\ [][NextShutdown]_vars

\* monitor ticks over every stored AP configuration
SpecWifiConfig == InitWifiConfig /\ [][NextWifi]_vars

\* check_schedule ticks with failing entries
SpecIsolation == InitIsolation /\ [][NextIsolation]_vars

\* ticks in which store operations and collaborators may raise
SpecFaulty == InitFaulty /\ [][NextFaulty]_vars


(***************************************************************************)
(* Properties                                                              *)
(***************************************************************************)

\* C1: when check_schedule ticks run one after another, the ticks of one
\* minute call play_sequence at most once per schedule; once a tick of that
\* minute has found Schedule rows for the time of day, every later tick of
\* the same minute returns "Already executed this minute" and calls
\* play_sequence zero times.
C1_OncePerMinute ==
    /\ \A i \in ScheduleIds : calls[i] <= 1
    /\ ( /\ spc = "idle"
         /\ minuteTicks >= 2
         /\ FilterByTime(schedules, tickMinute.hour, tickMinute.minute) # {} )
       => ( /\ sResult.kind = "Already executed this minute"
            /\ tickCalls = 0 )

\* a second tick of a minute has returned "Already executed" after the
\* first one dispatched a schedule
C1_Witness ==
    /\ spc = "idle"
    /\ minuteTicks >= 2
    /\ sResult.kind = "Already executed this minute"
    /\ \E i \in ScheduleIds : calls[i] = 1

\* C2: also when the scheduler process stops inside a tick and the tick is
\* run again in the same minute, no schedule is dispatched a second time.
C2_OncePerMinuteAcrossRestarts ==
    ~ \E i \in ScheduleIds : calls[i] > 1


\* C3: counting failed CLIENT_OK ticks from a tick that found the failure
\* counter at 0, start_ap_mode is called on a failed tick exactly when that
\* tick is the 3rd or a later consecutive failure (so not on the 1st and
\* 2nd, and on the 3rd); a successful activation leaves the access point
\* active, and a tick that runs the AP_FALLBACK branch never calls
\* start_ap_mode.
C3_ThirdFailureActivates ==
    /\ (lastTick.mode = "client" /\ ~lastTick.probe /\ failStreak >= 1)
       => (lastTick.startCalled <=> failStreak >= 3)
    /\ lastTick.mode = "ap" => ~lastTick.startCalled
    /\ lastTick.startOk => IsApModeActive

\* the 3rd consecutive failed tick has activated the access point
C3_Witness ==
    /\ lastTick.startOk
    /\ failStreak = 3
    /\ utility["in_fallback_mode"] = <<"true">>

\* C4: a monitor tick lowers the failure counter only to 0, and only when
\* its probe succeeded or its start_ap_mode succeeded; any other step leaves
\* the counter as it is or larger.
C4_CounterOnlyResetsOnSuccess ==
    [][GetWifiDownCount(utility') < GetWifiDownCount(utility)
       => /\ GetWifiDownCount(utility') = 0
          /\ lastTick'.probe \/ lastTick'.startOk]_vars

\* the counter has been reset by a successful activation
C4_Witness ==
    /\ lastTick.startOk
    /\ utility["wifi_down_count"] = <<Str(0)>>

\* C5: a failed tick in AP_FALLBACK leaves no wifi_back_time row, calls no
\* stop_ap_mode and leaves the access point up; after such a tick
\* stop_ap_mode is only called once 300 s have passed since the first
\* successful tick that followed the latest failed one.
C5_FailedProbeRestartsDwell ==
    /\ (lastTick.mode = "ap" /\ ~lastTick.probe)
       => /\ utility["wifi_back_time"] = NoRow
          /\ ~lastTick.stopCalled
          /\ IsApModeActive
    /\ (lastTick.stopCalled /\ lastTick.goodSince # 0 - 2)
       => /\ lastTick.goodSince >= 0
          /\ wallclock - lastTick.goodSince >= 300

\* stop_ap_mode has been called after a dwell that began after a failed tick
C5_Witness ==
    /\ lastTick.stopCalled
    /\ lastTick.goodSince >= 0

\* C6: a tick that switched back (stop_ap_mode reported success after 300 s
\* of successful probes) leaves in_fallback_mode and wifi_back_time absent
\* and the controller in CLIENT_OK.
C6_SwitchBackEndsFallback ==
    (lastTick.mode = "ap" /\ lastTick.stopOk)
    => /\ utility["in_fallback_mode"] = NoRow
       /\ utility["wifi_back_time"] = NoRow
       /\ ~IsApModeActive


\* worker n has begun a file of its playlist
Begun(n) == workers[n].pc = "wait" \/ workers[n].idx > 1

\* C7: once a worker started by a later play_sequence call has begun a file,
\* no file of an earlier worker's sequence is on the audio output.
C7_PriorStoppedBeforeNew ==
    \A o \in WorkerIds, n \in WorkerIds :
        (o < n /\ Begun(n))
        => ~(workers[o].pc = "wait" /\ music # <<>> /\ music[1] = o)

\* C8: a play_sequence call whose list names a missing file raises
\* FileNotFoundError at once and changes nothing of the player: no worker,
\* no playback state, no stop event, the running worker and the mixer
\* untouched.
C8_MissingFileStartsNothing ==
    [][\A c \in Callers :
         ( /\ ncalls' = ncalls + 1
           /\ callers'[c].callno = ncalls'
           /\ callers'[c].op = "play"
           /\ \E i \in 1..Len(callers'[c].paths) :
                  callers'[c].paths[i] \in MissingFiles )
         => ( /\ callers'[c].pc = "idle"
              /\ callers'[c].result = "FileNotFoundError"
              /\ UNCHANGED <<workers, playThread, stopEvent, music, utility,
                             lockHolder, initialized>> )]_vars

\* a call has raised FileNotFoundError while the sequence of an earlier call
\* was playing, and that sequence still plays
C8_Witness ==
    \E c \in Callers, w \in WorkerIds :
        /\ callers[c].result = "FileNotFoundError"
        /\ workers[w].sid < callers[c].callno
        /\ workers[w].pc = "wait"
        /\ music = <<w, workers[w].idx>>
        /\ StateIsPlaying(utility)

\* C9: as long as no join has timed out, two threads calling play_sequence
\* never leave two worker threads alive at once.
C9_CallsSerialized ==
    joinTimeouts = 0 => Cardinality({w \in WorkerIds : Alive(w)}) <= 1

\* C10: at most one worker is in its playback loop at any time.
C10_OneWorkerPlaying ==
    Cardinality({w \in WorkerIds : workers[w].pc \in {"loop", "wait"}}) <= 1


\* the clips the hour-to-clips and minute-to-clips lookups hold for a number
HourClips(h) == << <<"hour", h>> >>
MinuteClips(m) == << <<"minute", m>> >>

\* C11: for a Schedule with the bell enabled and a bell pair, tell_time set
\* and a custom sound, _build_sound_sequence at hour h, minute m returns
\* bell start, the hour clips of h, the minute clips of m, the custom clip,
\* bell end, in that order, for every h in 0..23 and m in 0..59.
C11_FullSequenceOrder ==
    LET sch == buildArgs.schedule
    IN  ( /\ buildArgs.called
          /\ sch.enable_bell_sound /\ sch.bell_sound # NoBell
          /\ sch.tell_time /\ sch.sound # <<>> )
        => sound_paths = <<sch.bell_sound[1].first>>
                         \o HourClips(buildArgs.hour)
                         \o MinuteClips(buildArgs.minute)
                         \o <<sch.sound[1]>>
                         \o <<sch.bell_sound[1].last>>

\* the call was made for a fully configured Schedule at 08:05
C11_Witness ==
    /\ buildArgs.called
    /\ buildArgs.hour = 8 /\ buildArgs.minute = 5
    /\ Len(sound_paths) = 5

\* C12: the bell start and end clips are in the list exactly when the bell
\* is enabled and a bell pair is set, the hour and minute clips exactly when
\* tell_time is set, the custom clip exactly when a sound is set, and
\* nothing else is in the list; so bell off, tell_time off and a custom
\* sound gives [custom], and bell on, tell_time off, no sound gives
\* [bell start, bell end].
C12_StepsIncludedIffConfigured ==
    LET sch == buildArgs.schedule
        bell == sch.enable_bell_sound /\ sch.bell_sound # NoBell
        In(clip) == \E i \in 1..Len(sound_paths) : sound_paths[i] = clip
        n(b) == IF b THEN 1 ELSE 0
    IN  buildArgs.called
        => /\ In(<<"bell_first", 1>>) <=> bell
           /\ In(<<"bell_last", 1>>) <=> bell
           /\ In(<<"hour", buildArgs.hour>>) <=> sch.tell_time
           /\ In(<<"minute", buildArgs.minute>>) <=> sch.tell_time
           /\ In(<<"sound", 1>>) <=> sch.sound # <<>>
           /\ Len(sound_paths) = 2 * n(bell) + 2 * n(sch.tell_time)
                                   + n(sch.sound # <<>>)
           /\ (~bell /\ ~sch.tell_time /\ sch.sound # <<>>)
              => sound_paths = << <<"sound", 1>> >>
           /\ (bell /\ ~sch.tell_time /\ sch.sound = <<>>)
              => sound_paths = << <<"bell_first", 1>>, <<"bell_last", 1>> >>

\* the call was made for a Schedule with the bell switched off although a
\* bell pair is set, and only the custom clip came back
C12_Witness ==
    /\ buildArgs.called
    /\ ~buildArgs.schedule.enable_bell_sound
    /\ buildArgs.schedule.bell_sound # NoBell
    /\ sound_paths = << <<"sound", 1>> >>


\* the Schedule rows whose time of day and weekday match the latest tick
MatchingEntries ==
    {s \in schedules : /\ s.hour = tickMinute.hour
                       /\ s.minute = tickMinute.minute
                       /\ Weekday(tickMinute) \in s.days}

\* the number of play_sequence calls of the latest tick made for Schedule id
CallsFor(id) ==
    Cardinality({i \in 1..Len(tickPlayed) : tickPlayed[i].schedule_id = id})

\* a Schedule row for which at least one assembly step is switched on
HasClips(s) ==
    \/ (s.enable_bell_sound /\ s.bell_sound # NoBell)
    \/ s.tell_time
    \/ s.sound # <<>>

C14_MarkerWrittenByEveryTick ==
    (spc = "idle" /\ sResult.kind \in {"Executed", "No schedules"})
    => /\ tickMarks = 1
       /\ utility[ExecKey] # NoRow
       /\ utility[ExecKey][1].hour = tickMinute.hour
       /\ utility[ExecKey][1].minute = tickMinute.minute


\* C15: a monitor tick run while the toggle row holds a value other than
\* 'true', or while NetworkManager is not available, probes nothing, calls
\* neither start_ap_mode nor stop_ap_mode and leaves every Utility row and
\* the access point as they were.
C15_DisabledTickIsNoOp ==
    [][( /\ wallclock' # wallclock
         /\ \/ ( /\ utility["wifi_monitor_enabled"] # NoRow
                  /\ utility["wifi_monitor_enabled"][1] # "true" )
            \/ ~nmSeen' )
       => ( /\ lastTick'.mode = "noop"
            /\ ~lastTick'.startCalled /\ ~lastTick'.stopCalled
            /\ UNCHANGED <<utility, hostapdActive>> )]_vars

\* a tick ran with monitoring switched off while the failure counter stood
\* at 2, and the counter still stands at 2
C15_Witness ==
    /\ lastTick.result = "WiFi monitoring disabled"
    /\ utility["wifi_monitor_enabled"] = <<"false">>
    /\ utility["wifi_down_count"] = <<Str(2)>>

\* C16: a monitor tick that finds no wifi_monitor_enabled row and has
\* NetworkManager available runs the probe: it takes the client or the
\* access-point branch.
C16_AbsentToggleMeansEnabled ==
    [][( /\ wallclock' # wallclock
         /\ utility["wifi_monitor_enabled"] = NoRow
         /\ nmSeen' )
       => lastTick'.mode \in {"client", "ap"}]_vars


\* C17: whenever a stop() call returns, in whatever state it was made, it
\* has raised nothing, no audio_playback_state row exists and the player
\* holds no thread, also when the join timed out; so a second stop() finds
\* the player as the first one left it.
C17_StopLeavesNoState ==
    [][\A c \in Callers :
         ( /\ callers[c].op = "stop"
           /\ callers[c].pc = "return"
           /\ callers'[c].pc = "idle" )
         => ( /\ callers'[c].result = "returned"
              /\ utility'[StateKey] = NoRow
              /\ playThread' = 0 )]_vars


\* the ids the first process has dispatched in its latest tick
PlayedIds == {tickPlayed[i].schedule_id : i \in 1..Len(tickPlayed)}

\* C20: when check_schedule runs in two processes for the same minute, no
\* Schedule row is dispatched by both of them.
C20_OverlapDispatchesOnce ==
    racer.current_time = tickMinute => racer.played \cap PlayedIds = {}


\* the Utility rows monitor_wifi_connection and its handlers read
ControllerKeys == {"wifi_monitor_enabled", "wifi_down_count", "wifi_back_time",
                   "ap_ssid", "ap_password", "fallback_count"}

\* C19: a restart of the scheduler process between two monitor ticks
\* changes no Utility row the controller reads and not the access-point
\* status, which are all a tick acts on; so with restarts a failed
\* CLIENT_OK tick still calls start_ap_mode exactly when it is the 3rd or a
\* later consecutive failure, counting the failures before the restart,
\* and a successful AP_FALLBACK tick calls stop_ap_mode exactly when 300 s
\* have passed since the dwell began, also when it began before the
\* restart.
C19_RestartSafe ==
    /\ [][procStarts' # procStarts
           => /\ \A k \in ControllerKeys : utility'[k] = utility[k]
              /\ UNCHANGED <<hostapdActive, lastTick>>]_vars
    /\ [](procStarts.n >= 1
          => /\ (lastTick.mode = "client" /\ ~lastTick.probe
                   /\ failStreak >= 1)
                => (lastTick.startCalled <=> failStreak >= 3)
             /\ (lastTick.mode = "ap" /\ lastTick.stopCalled
                   /\ lastTick.goodSince >= 0)
                => wallclock - lastTick.goodSince >= DWELL_SECONDS
             /\ (lastTick.mode = "ap" /\ lastTick.probe
                   /\ ~lastTick.stopCalled /\ goodSince >= 0)
                => wallclock - goodSince < DWELL_SECONDS)

\* the first three ticks failed, the process was restarted after the 1st
\* or 2nd of them, and the 3rd activated the access point
C19_Witness ==
    /\ procStarts.midStreak
    /\ wallclock < 4 * 60
    /\ failStreak = 3
    /\ lastTick.startOk
    /\ utility["wifi_down_count"] = <<Str(0)>>
    /\ utility["in_fallback_mode"] = <<"true">>

(***************************************************************************)
(* Failures inside a tick                                                  *)
(***************************************************************************)
\* the check_schedule tick that returned last had a failure in it
SchedTickFaulted ==
    /\ faultLog.at.job = "check_schedule"
    /\ faultLog.at.time = tickMinute
    /\ faultLog.at.index = minuteTicks - 1

\* the monitor tick that returned last had a failure in it
WifiTickFaulted ==
    /\ faultLog.at.job = "monitor_wifi"
    /\ faultLog.at.time = wallclock

C21_OnlyMatchingTimeAndWeekday ==
    /\ \A i \in 1..Len(tickPlayed) :
          \E s \in schedules :
             /\ s.id = tickPlayed[i].schedule_id
             /\ s.hour = tickMinute.hour
             /\ s.minute = tickMinute.minute
             /\ Weekday(tickMinute) \in s.days
    /\ \A s \in schedules :
          ( /\ s.hour = tickMinute.hour
            /\ s.minute = tickMinute.minute
            /\ Weekday(tickMinute) \notin s.days )
          => (CallsFor(s.id) = 0 /\ calls[s.id] = 0)
    /\ spc = "loop" => executed_count <= Len(tickPlayed)
    /\ (spc = "idle" /\ sResult.kind = "Executed")
          => sResult.count <= Len(tickPlayed)

\* a tick on a day that is a notification day of one row due at its minute
\* and not of another: the first was dispatched, the second was not
C21_Witness ==
    /\ spc = "idle" /\ sResult.kind = "Executed"
    /\ \E s \in schedules :
          /\ s.hour = tickMinute.hour /\ s.minute = tickMinute.minute
          /\ Weekday(tickMinute) \notin s.days
          /\ s.sound # <<>>
          /\ CallsFor(s.id) = 0
    /\ \E s \in schedules :
          /\ s.hour = tickMinute.hour /\ s.minute = tickMinute.minute
          /\ Weekday(tickMinute) \in s.days
          /\ CallsFor(s.id) = 1
    /\ sResult.count = 1

\* the rows due at the tick's minute and weekday whose assembled list is empty
EmptyEntries ==
    {s \in MatchingEntries :
        BuildSoundSequence(s, tickMinute.hour, tickMinute.minute) = <<>>}

Undispatched ==
    {s \in MatchingEntries \ EmptyEntries : CallsFor(s.id) = 0}

\* the due rows whose play_sequence call returned
Played ==
    {s \in MatchingEntries \ EmptyEntries :
        /\ CallsFor(s.id) = 1
        /\ AllExist(BuildSoundSequence(s, tickMinute.hour, tickMinute.minute))}

\* C23: a tick that entered the loop ends with "Executed" and the marker
\* written, whatever entries raised on the way (before play_sequence, or
\* play_sequence itself for a missing file); only the rows that raised are
\* missing a call, every other due row with a non-empty list has exactly
\* one, and the count is the number of calls that returned.
C23_EntryFailureIsolated ==
    (spc = "idle" /\ sResult.kind = "Executed")
    => /\ Cardinality(Undispatched) <= faultLog.n
       /\ \A s \in MatchingEntries : CallsFor(s.id) <= 1
       /\ sResult.count = Cardinality(Played)
       /\ tickMarks = 1
       /\ utility[ExecKey] # NoRow
       /\ utility[ExecKey][1].timestamp = Isoformat(tickMinute)
       /\ ~escaped

\* the first due row raised, a later due row was played and the marker was
\* written
C23_Witness ==
    /\ spc = "idle" /\ sResult.kind = "Executed"
    /\ faultLog.n = 1
    /\ faultLog.at.time = tickMinute
    /\ \E s \in Undispatched, l \in Played : s.id < l.id
    /\ tickMarks = 1

(***************************************************************************)
(* Fallback activation                                                     *)
(***************************************************************************)
\* the fallback-event counter as wifi_monitor_status reports it
FallbackCount(u) ==
    IF u["fallback_count"] = NoRow THEN 0
    ELSE ParseDigits(u["fallback_count"][1])

\* the step is a monitor tick in which start_ap_mode returned success
Activated == wallclock' # wallclock /\ lastTick'.startCalled /\ lastTick'.startOk

\* C24: the tick of a successful activation leaves in_fallback_mode 'true',
\* last_fallback_time at the tick's time, the fallback counter one higher,
\* ap_password equal to the passphrase hostapd was configured with, and
\* wifi_down_count '0'; no other step changes the fallback counter.
C24_ActivationBookkeeping ==
    [][ /\ Activated
          => /\ utility'["in_fallback_mode"] = <<"true">>
             /\ utility'["last_fallback_time"] = <<Str(wallclock')>>
             /\ utility'["fallback_count"] # NoRow
             /\ IsNumeric(utility'["fallback_count"][1])
             /\ FallbackCount(utility') = FallbackCount(utility) + 1
             /\ utility'["ap_password"] = <<hostapdConf'.wpa_passphrase>>
             /\ utility'["wifi_down_count"] = <<Str(0)>>
             /\ hostapdActive'
        /\ ~Activated
          => utility'["fallback_count"] = utility["fallback_count"] ]_vars

\* the second successful activation, made with a stored password
C24_Witness ==
    /\ lastTick.startCalled /\ lastTick.startOk
    /\ utility["fallback_count"] = <<Str(2)>>
    /\ utility["in_fallback_mode"] = <<"true">>
    /\ utility["ap_password"] = <<"secret">>
    /\ hostapdConf.wpa_passphrase = "secret"
    /\ utility["wifi_down_count"] = <<Str(0)>>

\* the step is a monitor tick in which start_ap_mode returned failure
ActivationFailed ==
    wallclock' # wallclock /\ lastTick'.startCalled /\ ~lastTick'.startOk

\* C25: a tick whose start_ap_mode failed leaves the controller in
\* CLIENT_OK (no access point running), leaves in_fallback_mode,
\* last_fallback_time and fallback_count as they were and the failure
\* counter at its incremented value; the next tick that monitors and whose
\* probe fails calls start_ap_mode again.
C25_FailedActivationRetried ==
    [][ /\ ActivationFailed
          => /\ ~hostapdActive'
             /\ utility'["in_fallback_mode"] = utility["in_fallback_mode"]
             /\ utility'["last_fallback_time"] = utility["last_fallback_time"]
             /\ utility'["fallback_count"] = utility["fallback_count"]
             /\ GetWifiDownCount(utility') = GetWifiDownCount(utility) + 1
             /\ GetWifiDownCount(utility') >= FAIL_THRESHOLD
        /\ ( /\ wallclock' # wallclock
             /\ lastTick.startCalled /\ ~lastTick.startOk
             /\ lastTick'.mode # "noop"
             /\ ~lastTick'.probe )
          => lastTick'.startCalled ]_vars

\* C26: a tick calls stop_ap_mode only when the ticks that ran the
\* AP_FALLBACK branch with a good probe, without a tick of the CLIENT_OK
\* branch or a bad probe between them, span at least 300 s up to this tick.
C26_DwellWithinEpisode ==
    lastTick.stopCalled
    => /\ dwellFrom >= 0
       /\ wallclock - dwellFrom >= DWELL_SECONDS

\* C27: a tick whose stop_ap_mode left hostapd running (its
\* 'systemctl stop hostapd' exited non-zero or timed out) reports the
\* deactivation as failed; a failed deactivation leaves in_fallback_mode and
\* wifi_back_time as they were and the next successful AP_FALLBACK tick
\* calls stop_ap_mode again; a failed activation does not set
\* in_fallback_mode.
C27_FailedOsStepDoesNotAdvance ==
    [][ wallclock' # wallclock
        => /\ (lastTick'.stopCalled /\ hostapdActive') => ~lastTick'.stopOk
           /\ (lastTick'.stopCalled /\ ~lastTick'.stopOk)
                => /\ utility'["in_fallback_mode"] = utility["in_fallback_mode"]
                   /\ utility'["wifi_back_time"] = utility["wifi_back_time"]
           /\ ( /\ lastTick.stopCalled /\ ~lastTick.stopOk
                /\ lastTick'.mode = "ap" /\ lastTick'.probe )
                => lastTick'.stopCalled
           /\ (lastTick'.startCalled /\ ~lastTick'.startOk)
                => utility'["in_fallback_mode"] = utility["in_fallback_mode"]
      ]_vars

\* C28: the hostapd configuration of a successful activation has the stored
\* ap_ssid, ap_password and ap_channel where the rows exist, and
\* 'SchoolAlarm-Setup', a generated passphrase and channel 6 where they do
\* not; its SSID is never the text of a null value.
C28_StoredOrDefaultApSettings ==
    (lastTick.startCalled /\ lastTick.startOk)
    => /\ hostapdConf.ssid =
            IF utility["ap_ssid"] = NoRow THEN DEFAULT_AP_SSID
            ELSE utility["ap_ssid"][1]
       /\ hostapdConf.ssid # "None"
       /\ hostapdConf.channel =
            IF utility["ap_channel"] = NoRow THEN DEFAULT_AP_CHANNEL
            ELSE ParseDigits(utility["ap_channel"][1])
       /\ utility["ap_password"] = <<hostapdConf.wpa_passphrase>>
       /\ hostapdConf.wpa_passphrase # ""

(***************************************************************************)
(* Audio player: termination and the published state                       *)
(***************************************************************************)
\* C29: every call of play_sequence or stop returns to its caller, whatever
\* the worker threads do and also when they never run again: a caller that
\* is inside a call is outside it at some later time.
C29_CallsReturn ==
    \A c \in Callers : (callers[c].pc # "idle") ~> (callers[c].pc = "idle")

\* a stop() has returned although the worker it waited for was still alive
\* when its join ended
C29_Witness ==
    /\ joinTimeouts >= 1
    /\ \E c \in Callers : callers[c].pc = "idle" /\ callers[c].result = "returned"
    /\ \E w \in WorkerIds : Alive(w)
    /\ lockHolder = 0

\* the mixer is playing file idx of worker w and w waits for it to end
PlayingFile(w, idx) ==
    /\ workers[w].pc = "wait"
    /\ workers[w].idx = idx
    /\ music = <<w, idx>>

\* C30: while the mixer plays file idx (counted from 1) of a worker's list,
\* the audio_playback_state row holds is_playing, that worker's playlist
\* and schedule id, current_index idx - 1 and the file's path.
C30_StatePublishedWhilePlaying ==
    \A w \in WorkerIds :
        \A idx \in 1..Len(workers[w].paths) :
            PlayingFile(w, idx)
            => utility[StateKey] =
                 <<PlaybackState(w, idx - 1, <<workers[w].paths[idx]>>)>>

(***************************************************************************)
(* C31: a file of a sequence whose load or play raises does not end the    *)
(* sequence: the step in which the error is caught leaves the worker in    *)
(* its for-loop at the next index, and every step the worker takes at the  *)
(* top of the loop with an index inside the list and no cancellation       *)
(* requested attempts exactly the file of that index (it starts playing or *)
(* it raises), so the later files are attempted one by one in order.       *)
(***************************************************************************)
C31_PlaybackErrorSkipsOneFile ==
    [][\A w \in WorkerIds :
          LET idx == workers[w].idx
              paths == workers[w].paths
          IN  /\ workers'[w].errors # workers[w].errors
                    => /\ workers'[w].errors = workers[w].errors \cup {idx}
                       /\ workers'[w].pc = "loop"
                       /\ workers'[w].idx = idx + 1
              /\ ( /\ workers[w].pc = "loop"
                   /\ workers'[w] # workers[w]
                   /\ ~stopEvent
                   /\ idx <= Len(paths) )
                    => \/ workers'[w].pc = "wait" /\ music' = <<w, idx>>
                       \/ idx \in workers'[w].errors]_vars

\* the first file of a two-file sequence raised and the second is playing
C31_Witness ==
    \E w \in WorkerIds :
        /\ Len(workers[w].paths) = 2
        /\ workers[w].errors = {1}
        /\ workers[w].pc = "wait"
        /\ workers[w].idx = 2
        /\ music = <<w, 2>>
        /\ ~stopEvent


\* no worker thread is running and no playback state is stored: what
\* is_playing() (lines 119-126) reports as False
PlayerIdle ==
    /\ \A w \in WorkerIds : ~Alive(w)
    /\ ~StateIsPlaying(utility)

(***************************************************************************)
(* C32: when worker threads get to run and every file that plays comes to  *)
(* its end or is halted, each worker that was started ends, whether audio  *)
(* initialisation failed, the stop event was seen or the list was played   *)
(* through, and the player gets back to the state in which no worker is    *)
(* alive and the audio_playback_state row is absent, so that is_playing()  *)
(* returns False.                                                          *)
(***************************************************************************)
C32_SequenceEnds ==
    /\ \A n \in 1..MaxSequences :
          (n \in WorkerIds) ~> (n \in WorkerIds /\ workers[n].pc = "done")
    /\ (workers # <<>>) ~> PlayerIdle

\* the player is idle after one sequence was played through and another
\* ended before its last file
C32_Witness ==
    /\ PlayerIdle
    /\ utility[StateKey] = NoRow
    /\ \E w \in WorkerIds : workers[w].idx > Len(workers[w].paths)
    /\ \E w \in WorkerIds : workers[w].idx <= Len(workers[w].paths)


\* worker w puts a file on the mixer in this step
StartsFile(w) == music' # music /\ music' # <<>> /\ music'[1] = w

(***************************************************************************)
(* C33: once stop() has set the stop event, no worker starts a file while  *)
(* the event is set, a worker in its playback wait that takes its next     *)
(* step halts the mixer and leaves the wait, and the event is not cleared  *)
(* while a worker exists that has not yet left its for-loop, so a worker   *)
(* that was running when the cancellation was signalled starts no further  *)
(* file of its sequence.                                                   *)
(***************************************************************************)
C33_CancellationObserved ==
    [][/\ stopEvent => \A w \in WorkerIds : ~StartsFile(w)
       /\ \A w \in WorkerIds :
             (stopEvent /\ workers[w].pc = "wait" /\ workers'[w] # workers[w])
                 => music' = <<>> /\ workers'[w].pc = "loop"
       /\ (stopEvent /\ ~stopEvent')
             => \A w \in WorkerIds : workers[w].pc \in {"finally", "done"}]_vars


MalformedNumber(k) == utility[k] # NoRow /\ ~IsNumeric(utility[k][1])
MalformedMarker == utility[ExecKey] # NoRow /\ ~ParsesAsMarker(utility[ExecKey][1])
MalformedState ==
    utility[StateKey] # NoRow /\ "is_playing" \notin DOMAIN utility[StateKey][1]

(***************************************************************************)
(* C35: a row that does not parse is read like an absent row: the failure  *)
(* counter reads as 0, the idempotency marker as not executed, the         *)
(* playback state as not playing, and after an AP_FALLBACK tick whose      *)
(* probe succeeded the dwell timestamp is a parseable timestamp again (the *)
(* tick recorded a new first success), so that the dwell can complete.     *)
(***************************************************************************)
C35_MalformedReadsAsAbsent ==
    /\ MalformedNumber("wifi_down_count") => GetWifiDownCount(utility) = 0
    /\ MalformedMarker => ~AlreadyExecutedThisMinute(utility, Now(clock))
    /\ MalformedState => ~StateIsPlaying(utility)
    /\ (lastTick.mode = "ap" /\ lastTick.probe)
          => ~MalformedNumber("wifi_back_time")


(***************************************************************************)
(* C36: when _shutdown has returned (the player stopped, the mixer shut,   *)
(* the scheduler shut down after its running job returned) no playback     *)
(* worker is alive, the audio output is released and no playback state is  *)
(* stored, however the steps of a check_schedule job that was running when *)
(* the shutdown began fall between the steps of _shutdown.                 *)
(***************************************************************************)
C36_ShutdownLeavesNoPlayback ==
    callers[MainThread].op = "shut_down"
        => /\ \A w \in WorkerIds : ~Alive(w)
           /\ ~initialized
           /\ utility[StateKey] = NoRow


\* the marker row holds a timestamp of another day with the hour and the
\* minute of the clock
StaleMarker ==
    /\ utility[ExecKey] # NoRow
    /\ ParsesAsMarker(utility[ExecKey][1])
    /\ LET last_time == FromIsoformat(utility[ExecKey][1].timestamp)
       IN  /\ last_time.day # Now(clock).day
           /\ last_time.hour = Now(clock).hour
           /\ last_time.minute = Now(clock).minute

\* a check_schedule call begins in this step
TickBegins ==
    /\ spc = "idle"
    /\ clock' = clock
    /\ tickMinute' # tickMinute \/ minuteTicks' # minuteTicks \/ spc' # spc

(***************************************************************************)
(* C37: a tick that finds a marker written on another day at the same hour *)
(* and minute is not answered "Already executed this minute": it goes on   *)
(* as a tick that finds no marker does, visiting the entries of the time   *)
(* of day (or returning "No schedules" when there are none), so an entry   *)
(* configured for consecutive days is dispatched on the second day although*)
(* no tick in between rewrote the marker.                                  *)
(***************************************************************************)
C37_EarlierDayMarkerDoesNotSuppress ==
    [][(TickBegins /\ StaleMarker)
         => LET t == Now(clock)
                rows == FilterByTime(schedules, t.hour, t.minute)
            IN  IF rows = {}
                THEN sResult'.kind = "No schedules"
                ELSE /\ spc' = "loop"
                     /\ current_time' = t
                     /\ sQueue' = InIdOrder(rows)]_vars

\* on the second day the tick of 00:01 has dispatched the entry configured
\* for both days while the marker still is the one written at 00:01 of the
\* first day
C37_Witness ==
    /\ spc = "loop"
    /\ current_time = [day |-> 1, hour |-> 0, minute |-> 1]
    /\ calls[2] = 1
    /\ utility[ExecKey] # NoRow
    /\ utility[ExecKey][1].timestamp = Isoformat([day |-> 0, hour |-> 0, minute |-> 1])


\* the last file of worker w's list comes to its end on the mixer in this
\* step, without having been halted
PlaysToCompletion(w) ==
    /\ workers[w].pc = "wait"
    /\ music = <<w, Len(workers[w].paths)>>
    /\ music' = <<>>
    /\ UNCHANGED <<workers, callers, stopEvent>>

(***************************************************************************)
(* C38: play_sequence calls made one after another by one thread, as the   *)
(* for-loop of a tick makes them, do not queue: once the worker of a later *)
(* call has been started, the worker of an earlier call starts no file and *)
(* its last file does not play to its end, so only the sequence of the     *)
(* last call can play to completion.                                       *)
(***************************************************************************)
C38_OnlyLastSequenceCompletes ==
    [][\A o \in WorkerIds, n \in WorkerIds :
          o < n => ~StartsFile(o) /\ ~PlaysToCompletion(o)]_vars


(***************************************************************************)
(* C39: after every monitor tick the in_fallback_mode row holds 'true'     *)
(* exactly when hostapd is active, that is exactly when the next tick      *)
(* takes the AP_FALLBACK branch, whatever start_ap_mode and stop_ap_mode   *)
(* did in the ticks so far.                                                *)
(***************************************************************************)
C39_FlagMatchesAccessPoint ==
    lastTick.mode # "none"
        => (utility["in_fallback_mode"] = <<"true">> <=> IsApModeActive)

====
